---- MODULE Spec2Model ----
(***************************************************************************)
(* A model of the session stores of jiyi27/sessions.                       *)
(*                                                                         *)
(* The repository holds several generations of the store.  Each is        *)
(* modelled by its own actions and its own specification over one shared  *)
(* set of variables:                                                       *)
(*   SpecCookie       cookieStore  (store.go 36-142) with the lock-guarded *)
(*                    Session of session.go 10-190: handlers and gc        *)
(*   SpecMemory       memoryStore  (store.go 144-286), the deep-copy       *)
(*                    store: its request handlers                          *)
(*   SpecMemoryStore  MemoryStore  (example/main.go 57-166): handlers and  *)
(*                    gc                                                   *)
(*                                                                         *)
(* Session objects live in a heap (a sequence; a pointer is an index), so  *)
(* that "the same object" and "an equal copy" are different things.  The   *)
(* Values maps of the deep-copy store live in a heap of their own.  Every  *)
(* critical section of the code (the statements between a Lock/RLock and   *)
(* its Unlock) is one step of the model.                                   *)
(***************************************************************************)
EXTENDS Integers, Sequences, FiniteSets, TLC

\* ---------------------------------------------------------------- bounds
\* The clock runs from 0 to MaxTime seconds.
MaxTime == 1
\* At most MaxObjects Session objects are ever allocated.
MaxObjects == 2
\* gc's slice of collected ids holds at most MaxExpired entries.
MaxExpired == 2
\* The arguments handlers pass to SetMaxAge: 0 .. MaxSetAge seconds.
MaxSetAge == 1
\* At most MaxMySessions MySession objects are ever allocated.
MaxMySessions == 3
\* At most MaxRedisObjects sessions and stored values are ever made with the
\* RedisStore.
MaxRedisObjects == 4
\* At most MaxInfoSessions MySession objects are ever made with the
\* sessionInfo store.
MaxInfoSessions == 2
\* A payload is built from at most MaxContainers maps and slices, each of
\* MaxElems elements, before it is copied.
MaxContainers == 3
MaxElems == 1

\* The identifiers the random source can return, the request handlers
\* (goroutines) and the values a "no such thing" takes.
IDS == {"a", "b"}
Handlers == {"h1", "h2"}
NoCookie == "none"
NoName == "none"
Nil == 0
\* The keys and values handlers put into Values.  Gob can encode the values
\* of Registered; it cannot encode a value of a type nobody registered.
Keys == {"name"}
Registered == {"Coco", "Bella"}
Unregistered == {"struct"}
Vals == Registered \cup Unregistered

\* ------------------------------------------------------ program constants
\* cookieStore.options.MaxAge
cookieStore_MaxAge == 60
\* memoryStore.Options.MaxAge
memoryStore_MaxAge == 60
\* defaultOptions().MaxAge, in seconds
defaultOptions_MaxAge == 60

VARIABLES
    now,        \* time.Now().Unix()
    heap,       \* the Session objects: heap[p] is the object behind pointer p
    sessions,   \* the store's table: id -> pointer
    pc,         \* where each handler is
    cookie,     \* the cookie value of the request a handler is serving
    cand,       \* the id generateID returned to a handler
    ret,        \* what a handler's last call returned
    gcpc,       \* where the gc goroutine is
    expired,    \* gc's slice of collected ids
    maps,       \* the Values maps of the deep-copy store: maps[m] is the map behind reference m
    removed,    \* history: the ids Delete or gc removed and New has not issued again
    name        \* the session name of the request a handler is serving

vars == <<now, heap, sessions, pc, cookie, cand, ret, gcpc, expired, maps, removed,
          name>>

\* What the cookieStore never touches.
aux == <<maps, removed, name>>

\* found: the id the call presented was in the table when the call looked.
NoRet == [kind |-> "none", ptr |-> Nil, isNew |-> FALSE, found |-> FALSE]

\* The process is running: an unrecovered panic in a goroutine ends it.
Running == gcpc # "panic"

\* delete(m, k) and m[k] = p of a Go map.
MapDelete(m, k) == [x \in DOMAIN m \ {k} |-> m[x]]
MapPut(m, k, p) == [x \in DOMAIN m \cup {k} |-> IF x = k THEN p ELSE m[x]]

\* The ids whose stored session is at or past its expiry at time t.
Overdue(tbl, hp, t) == {k \in DOMAIN tbl : hp[tbl[k]].expiry <= t}

\* All orders in which a range over a Go map can visit the keys S.
RECURSIVE Orders(_)
Orders(S) ==
    IF S = {} THEN {<<>>}
    ELSE UNION {{<<k>> \o o : o \in Orders(S \ {k})} : k \in S}

Init ==
    /\ now = 0
    /\ heap = <<>>
    /\ sessions = <<>>
    /\ pc = [h \in Handlers |-> "idle"]
    /\ cookie = [h \in Handlers |-> NoCookie]
    /\ cand = [h \in Handlers |-> NoCookie]
    /\ ret = [h \in Handlers |-> NoRet]
    /\ gcpc = "wait"
    /\ expired = <<>>
    /\ maps = <<>>
    /\ removed = {}
    /\ name = [h \in Handlers |-> NoName]

\* ------------------------------------------------------------------ time
Tick ==
    /\ Running
    /\ now < MaxTime
    /\ now' = now + 1
    /\ UNCHANGED <<heap, sessions, pc, cookie, cand, ret, gcpc, expired, aux>>

\* ------------------------------------------------------------ session.go
\* A NewSession that leaves isNew at its zero value.
NewSession_NotNew(id, maxAge, t) ==
    [id |-> id, isNew |-> FALSE, expiry |-> t + maxAge, maxAge |-> maxAge]

\* NewSession(name, id, options)
NewSession(id, maxAge, t) ==
    [id |-> id, isNew |-> TRUE, expiry |-> t + maxAge, maxAge |-> maxAge]

\* A SetIsNew that forgets the assignment.
SetIsNew_Dropped(hp, p, b) == hp

\* Session.SetIsNew
SetIsNew(hp, p, b) == [hp EXCEPT ![p].isNew = b]

\* Session.SetMaxAge
SetMaxAge(hp, p, seconds, t) ==
    [hp EXCEPT ![p].maxAge = seconds, ![p].expiry = t + seconds]

\* A handler calls SetMaxAge on the session its last Get returned.
Session_SetMaxAge(h) ==
    /\ Running
    /\ pc[h] = "idle"
    /\ ret[h].ptr # Nil
    /\ \E seconds \in 0..MaxSetAge :
         heap' = SetMaxAge(heap, ret[h].ptr, seconds, now)
    /\ UNCHANGED <<now, sessions, pc, cookie, cand, ret, gcpc, expired, aux>>

\* ------------------------------------------------- cookieStore (store.go)
\* A Get that does not look at the name.
cookieStore_GetOf_NameUnchecked(h, nameValid, c) ==
    /\ Running
    /\ pc[h] = "idle"
    /\ cookie' = [cookie EXCEPT ![h] = c]
    /\ IF c \in DOMAIN sessions
       THEN /\ pc' = [pc EXCEPT ![h] = "hit"]
            /\ ret' = [ret EXCEPT ![h] = [NoRet EXCEPT !.ptr = sessions[c]]]
       ELSE /\ pc' = [pc EXCEPT ![h] = "generateID"]
            /\ ret' = [ret EXCEPT ![h] = NoRet]
    /\ UNCHANGED <<now, heap, sessions, cand, gcpc, expired, aux>>

\* cookieStore.Get, lines 60-68, for a request whose session name is valid
\* or not and whose cookie is c: the name check, the cookie, the lookup.
cookieStore_GetOf(h, nameValid, c) ==
    /\ Running
    /\ pc[h] = "idle"
    /\ IF ~nameValid
       THEN /\ ret' = [ret EXCEPT ![h] = [NoRet EXCEPT !.kind = "invalidName"]]
            /\ UNCHANGED <<pc, cookie>>
       ELSE /\ cookie' = [cookie EXCEPT ![h] = c]
            /\ IF c \in DOMAIN sessions
               THEN /\ pc' = [pc EXCEPT ![h] = "hit"]
                    /\ ret' = [ret EXCEPT ![h] = [NoRet EXCEPT !.ptr = sessions[c]]]
               ELSE /\ pc' = [pc EXCEPT ![h] = "generateID"]
                    /\ ret' = [ret EXCEPT ![h] = NoRet]
    /\ UNCHANGED <<now, heap, sessions, cand, gcpc, expired, aux>>

\* cookieStore.Get, for any request.
cookieStore_Get(h) ==
    \E nameValid \in BOOLEAN, c \in IDS \cup {NoCookie} :
        cookieStore_GetOf(h, nameValid, c)

\* cookieStore.Get, lines 69-72: the hit.
cookieStore_GetHit(h) ==
    /\ Running
    /\ pc[h] = "hit"
    /\ heap' = SetIsNew(heap, ret[h].ptr, FALSE)
    /\ ret' = [ret EXCEPT ![h].kind = "hit", ![h].isNew = heap'[ret[h].ptr].isNew,
                           ![h].found = TRUE]
    /\ pc' = [pc EXCEPT ![h] = "idle"]
    /\ cookie' = [cookie EXCEPT ![h] = NoCookie]
    /\ UNCHANGED <<now, sessions, cand, gcpc, expired, aux>>

\* cookieStore.generateID: one round of the loop, in which the random source
\* fails (~randOk) or draws id.
cookieStore_generateIDOf(h, randOk, id) ==
    /\ Running
    /\ pc[h] = "generateID"
    /\   IF ~randOk
         THEN /\ ret' = [ret EXCEPT ![h] = [NoRet EXCEPT !.kind = "error"]]
              /\ pc' = [pc EXCEPT ![h] = "idle"]
              /\ cookie' = [cookie EXCEPT ![h] = NoCookie]
              /\ UNCHANGED cand
         ELSE IF id \in DOMAIN sessions
         THEN UNCHANGED <<ret, pc, cand, cookie>>
         ELSE /\ cand' = [cand EXCEPT ![h] = id]
              /\ pc' = [pc EXCEPT ![h] = "New"]
              /\ cookie' = [cookie EXCEPT ![h] = NoCookie]
              /\ UNCHANGED ret
    /\ UNCHANGED <<now, heap, sessions, gcpc, expired, aux>>

cookieStore_generateID(h) ==
    \E randOk \in BOOLEAN, id \in IDS : cookieStore_generateIDOf(h, randOk, id)

\* cookieStore.New, lines 85-90.
cookieStore_New(h) ==
    /\ Running
    /\ pc[h] = "New"
    /\ Len(heap) < MaxObjects
    /\ LET p == Len(heap) + 1
           id == cand[h]
       IN /\ heap' = Append(heap, NewSession(id, cookieStore_MaxAge, now))
          /\ sessions' = MapPut(sessions, id, p)
          /\ ret' = [ret EXCEPT ![h] = [kind |-> "new", ptr |-> p,
                                         isNew |-> heap'[p].isNew, found |-> FALSE]]
    /\ pc' = [pc EXCEPT ![h] = "idle"]
    /\ cand' = [cand EXCEPT ![h] = NoCookie]
    /\ cookie' = [cookie EXCEPT ![h] = NoCookie]
    /\ UNCHANGED <<now, gcpc, expired, aux>>

\* cookieStore.gc, lines 115-124: the emptiness check and the scan.
cookieStore_gcScan ==
    /\ gcpc = "wait"
    /\ IF DOMAIN sessions = {}
       THEN UNCHANGED <<gcpc, expired>>
       ELSE /\ Len(expired) + Cardinality(Overdue(sessions, heap, now)) <= MaxExpired
            /\ \E o \in Orders(Overdue(sessions, heap, now)) :
                 expired' = expired \o o
            /\ gcpc' = "delete"
    /\ UNCHANGED <<now, heap, sessions, pc, cookie, cand, ret, aux>>

\* The loop without the second look at the expiry: every collected id goes.
RECURSIVE cookieStore_gcSweep_NoRecheck(_, _, _, _)
cookieStore_gcSweep_NoRecheck(tbl, hp, exp, t) ==
    IF exp = <<>> THEN [sessions |-> tbl, panic |-> FALSE]
    ELSE IF Head(exp) \notin DOMAIN tbl THEN [sessions |-> tbl, panic |-> TRUE]
    ELSE cookieStore_gcSweep_NoRecheck(MapDelete(tbl, Head(exp)), hp, Tail(exp), t)

\* cookieStore.gc, lines 128-133: the loop over the collected ids.
RECURSIVE cookieStore_gcSweep(_, _, _, _)
cookieStore_gcSweep(tbl, hp, exp, t) ==
    IF exp = <<>> THEN [sessions |-> tbl, panic |-> FALSE]
    ELSE IF Head(exp) \notin DOMAIN tbl THEN [sessions |-> tbl, panic |-> TRUE]
    ELSE IF hp[tbl[Head(exp)]].expiry <= t
         THEN cookieStore_gcSweep(MapDelete(tbl, Head(exp)), hp, Tail(exp), t)
         ELSE cookieStore_gcSweep(tbl, hp, Tail(exp), t)

\* cookieStore.gc, lines 125-134: the delete phase.
cookieStore_gcDelete ==
    /\ gcpc = "delete"
    /\ LET r == cookieStore_gcSweep(sessions, heap, expired, now)
       IN /\ sessions' = r.sessions
          /\ gcpc' = IF r.panic THEN "panic" ELSE "wait"
    /\ UNCHANGED <<now, heap, pc, cookie, cand, ret, expired, aux>>

NextCookie ==
    \/ Tick
    \/ \E h \in Handlers : cookieStore_Get(h)
    \/ \E h \in Handlers : cookieStore_GetHit(h)
    \/ \E h \in Handlers : cookieStore_generateID(h)
    \/ \E h \in Handlers : cookieStore_New(h)
    \/ \E h \in Handlers : Session_SetMaxAge(h)
    \/ cookieStore_gcScan
    \/ cookieStore_gcDelete

SpecCookie == Init /\ [][NextCookie]_vars

\* The scheduler lets every goroutine that can take a step take one: each
\* handler's steps, with a random source that works, and the gc goroutine's.
\* Time advances as long as the model's clock allows.
FairCookie ==
    /\ WF_vars(Tick)
    /\ WF_vars(cookieStore_gcScan)
    /\ WF_vars(cookieStore_gcDelete)
    /\ \A h \in Handlers :
         /\ WF_vars(cookieStore_GetHit(h))
         /\ WF_vars(\E id \in IDS : cookieStore_generateIDOf(h, TRUE, id))
         /\ WF_vars(cookieStore_New(h))

SpecCookieFair == SpecCookie /\ FairCookie

\* ===================================================== claims, cookieStore

\* A step leaves every table entry whose session is before its expiry in the
\* table.
UnexpiredStay ==
    \A c \in DOMAIN sessions :
        heap[sessions[c]].expiry > now => c \in DOMAIN sessions'

\* C1: the Get that creates a session returns it with isNew = true and has
\* put it in the table under its id; an entry stays in the table as long as
\* its session is before its expiry; a Get presenting an id that is in the
\* table is a hit, and a hit returns the session of that id with
\* isNew = false.
C1_CreateThenHit ==
    [][/\ UnexpiredStay
       /\ \A h \in Handlers :
            /\ (pc[h] = "New" /\ pc'[h] = "idle") =>
                   /\ ret'[h].kind = "new" /\ ret'[h].isNew
                   /\ cand[h] \in DOMAIN sessions'
                   /\ sessions'[cand[h]] = ret'[h].ptr
            /\ (pc[h] = "idle" /\ pc'[h] \in {"hit", "generateID"}) =>
                   (cookie'[h] \in DOMAIN sessions <=> pc'[h] = "hit")
            /\ (pc[h] = "hit" /\ pc'[h] = "idle") =>
                   /\ ret'[h].kind = "hit" /\ ~ret'[h].isNew
                   /\ heap'[ret'[h].ptr].id = cookie[h]
                   /\ ~heap'[ret'[h].ptr].isNew]_vars

\* C1's case: a handler holds the session its Get created, another Get that
\* presented the id has returned the same session as a hit, and the session
\* is before its expiry.
C1_Witness ==
    \E h1, h2 \in Handlers :
        /\ ret[h1].kind = "new" /\ ret[h2].kind = "hit"
        /\ ret[h1].ptr = ret[h2].ptr
        /\ heap[ret[h1].ptr].expiry > now
        /\ now > 0

\* C3 as stated: a Get whose cookie's id is in the table returns a handle
\* that is not the stored object, with isNew = false, and the stored object
\* is the same before and after the call.
C3_HitReturnsIsolatedCopy ==
    [][\A h \in Handlers :
         (pc[h] = "hit" /\ pc'[h] = "idle") =>
             /\ ~ret'[h].isNew
             /\ heap'[ret[h].ptr] = heap[ret[h].ptr]
             /\ \A c \in DOMAIN sessions' : sessions'[c] # ret'[h].ptr]_vars

\* C4 as stated: entries stay while their session is before its expiry, and
\* every tick of the gc loop runs its delete phase to the end and removes
\* each id the scan collected whose session is still at or past its expiry.
C4_EveryTickEvicts ==
    [][/\ UnexpiredStay
       /\ (gcpc = "delete" /\ gcpc' # "delete") =>
              /\ gcpc' = "wait"
              /\ \A i \in 1..Len(expired) :
                     (/\ expired[i] \in DOMAIN sessions
                      /\ heap[sessions[expired[i]]].expiry <= now)
                     => expired[i] \notin DOMAIN sessions']_vars

\* C5: the delete phase of gc removes an id only if the session stored under
\* it is at or past its expiry when the phase runs, and changes nothing else
\* of the table.
C5_gcDeletesOnlyExpired ==
    [][(gcpc = "delete" /\ gcpc' # "delete") =>
          /\ \A c \in DOMAIN sessions :
                 heap[sessions[c]].expiry > now =>
                     c \in DOMAIN sessions' /\ sessions'[c] = sessions[c]
          /\ DOMAIN sessions' \subseteq DOMAIN sessions]_vars

\* C5's case: the only session ever created was collected by the scan, its
\* expiry was then moved to the future, the delete phase has run, and the
\* session is still in the table.
C5_Witness ==
    /\ Len(heap) = 1
    /\ gcpc = "wait"
    /\ Len(expired) = 1
    /\ expired[1] \in DOMAIN sessions
    /\ heap[sessions[expired[1]]].expiry > now

\* C6 as stated: as long as gc has collected nothing, the sessions New has
\* returned have pairwise distinct ids and the table holds one entry for
\* each of them.
C6_DistinctIds ==
    expired = <<>> =>
        /\ \A p, q \in 1..Len(heap) : p # q => heap[p].id # heap[q].id
        /\ Cardinality(DOMAIN sessions) = Len(heap)

\* ===================================== memoryStore, the deep-copy store
\* The request handlers of the store: Get, the handlers' writes to Values,
\* Save.

\* NewMySession(name, id, maxAge, store): a new session with an empty Values
\* map of its own, behind reference m.
NewMySession(id, maxAge, t, m) ==
    [id |-> id, isNew |-> TRUE, expiry |-> t + maxAge, maxAge |-> maxAge, values |-> m]

\* A DeepCopyMap that hands back the map it was given.
DeepCopyMap_Alias(ms, src, dst) == [err |-> FALSE, maps |-> ms, ref |-> src]

DeepCopyMap_ErrorIgnored(ms, src, dst) ==
    [err |-> FALSE, maps |-> [ms EXCEPT ![dst] = ms[src]], ref |-> dst]

\* DeepCopyMap: gob-encode the map behind src and decode it into the fresh
\* map behind dst; an error when a value's type is not registered.
DeepCopyMap(ms, src, dst) ==
    IF \E k \in DOMAIN ms[src] : ms[src][k] \in Unregistered
    THEN [err |-> TRUE, maps |-> ms, ref |-> dst]
    ELSE [err |-> FALSE, maps |-> [ms EXCEPT ![dst] = ms[src]], ref |-> dst]

\* memoryStore.generateID, lines 243-248: the loop ends with an id that is
\* not in the table when the round looks.
memoryStore_generateID(tbl, id) == id \notin DOMAIN tbl

\* memoryStore.Get, lines 185-188, and New's call of generateID, lines
\* 193-196.  The rounds of generateID's loop that draw an id that is in the
\* table change nothing; the step is the round that ends the loop, with an
\* error of the random source or with the id generateID returns.
memoryStore_Get(h) ==
    /\ Running
    /\ pc[h] = "idle"
    /\ \E nameValid, randOk \in BOOLEAN, id \in IDS :
         IF ~nameValid \/ ~randOk
         THEN /\ ret' = [ret EXCEPT ![h] = [NoRet EXCEPT !.kind = "error"]]
              /\ UNCHANGED <<pc, cand>>
         ELSE /\ memoryStore_generateID(sessions, id)
              /\ cand' = [cand EXCEPT ![h] = id]
              /\ pc' = [pc EXCEPT ![h] = "New"]
              /\ ret' = [ret EXCEPT ![h] = NoRet]
    /\ UNCHANGED <<now, heap, sessions, cookie, gcpc, expired, maps, removed, name>>

\* memoryStore.New, lines 197-216: the new session, the request's cookie c
\* and, when its id is in the table, the copy of the stored session into the
\* new one.
memoryStore_NewOf(h, c) ==
    /\ Running
    /\ pc[h] = "New"
    /\ Len(heap) < MaxMySessions
    /\ LET p == Len(heap) + 1
           session == NewMySession(cand[h], memoryStore_MaxAge, now, p)
           fresh == Append(maps, <<>>)
       IN IF c \in DOMAIN sessions
          THEN LET se == heap[sessions[c]]
                   d == DeepCopyMap(fresh, se.values, p)
               IN IF d.err
                  THEN /\ ret' = [ret EXCEPT ![h] = [NoRet EXCEPT !.kind = "error",
                                                                  !.found = TRUE]]
                       /\ UNCHANGED <<heap, maps>>
                  ELSE /\ heap' = Append(heap, [session EXCEPT !.values = d.ref,
                                                               !.maxAge = se.maxAge,
                                                               !.id = c,
                                                               !.isNew = FALSE])
                       /\ maps' = d.maps
                       /\ ret' = [ret EXCEPT ![h] = [kind |-> "hit", ptr |-> p,
                                                     isNew |-> FALSE, found |-> TRUE]]
          ELSE /\ heap' = Append(heap, session)
               /\ maps' = fresh
               /\ ret' = [ret EXCEPT ![h] = [kind |-> "new", ptr |-> p,
                                             isNew |-> TRUE, found |-> FALSE]]
    /\ pc' = [pc EXCEPT ![h] = "idle"]
    /\ cand' = [cand EXCEPT ![h] = NoCookie]
    /\ UNCHANGED <<now, sessions, cookie, gcpc, expired, removed, name>>

memoryStore_New(h) == \E c \in IDS \cup {NoCookie} : memoryStore_NewOf(h, c)

\* A handler writes session.Values[k] = v on the session its Get returned.
Values_Write(h) ==
    /\ Running
    /\ pc[h] = "idle"
    /\ ret[h].ptr # Nil
    /\ \E k \in Keys, v \in Vals :
         maps' = [maps EXCEPT ![heap[ret[h].ptr].values] = MapPut(@, k, v)]
    /\ UNCHANGED <<now, heap, sessions, pc, cookie, cand, ret, gcpc, expired, removed, name>>

\* memoryStore.Save and save, lines 223-230: the cookie and the new expiry,
\* written before the lock is taken.
memoryStore_Save(h) ==
    /\ Running
    /\ pc[h] = "idle"
    /\ ret[h].ptr # Nil
    /\ heap' = [heap EXCEPT ![ret[h].ptr].expiry = now + heap[ret[h].ptr].maxAge]
    /\ pc' = [pc EXCEPT ![h] = "save"]
    /\ UNCHANGED <<now, sessions, cookie, cand, ret, gcpc, expired, maps, removed, name>>

\* A save that leaves an entry that is already there alone.
memoryStore_put_KeepFirst(tbl, id, p) ==
    IF id \in DOMAIN tbl THEN tbl ELSE MapPut(tbl, id, p)

\* memoryStore.save, line 232: s.sessions[session.id] = session.
memoryStore_put(tbl, id, p) == MapPut(tbl, id, p)

\* memoryStore.save, lines 231-233, and Save's return nil.
memoryStore_save(h) ==
    /\ Running
    /\ pc[h] = "save"
    /\ sessions' = memoryStore_put(sessions, heap[ret[h].ptr].id, ret[h].ptr)
    /\ ret' = [ret EXCEPT ![h].kind = "saved"]
    /\ pc' = [pc EXCEPT ![h] = "idle"]
    /\ UNCHANGED <<now, heap, cookie, cand, gcpc, expired, maps, removed, name>>

NextMemory ==
    \/ \E h \in Handlers : memoryStore_Get(h)
    \/ \E h \in Handlers : memoryStore_New(h)
    \/ \E h \in Handlers : Values_Write(h)
    \/ \E h \in Handlers : memoryStore_Save(h)
    \/ \E h \in Handlers : memoryStore_save(h)

SpecMemory == Init /\ [][NextMemory]_vars

\* ===================================================== claims, memoryStore

\* C2: a Get whose cookie's id is in the table returns a new session, not the
\* stored one, whose Values are a map of their own that equals the stored
\* session's Values key for key, and the copy leaves the stored Values as
\* they were; a handler's write to the Values of one session changes the
\* Values of no other session, so neither a write to the returned copy shows
\* in the stored session nor a write to the stored session in the copy.
C2_SaveThenGetIsolated ==
    [][/\ \A h \in Handlers :
            (pc[h] = "New" /\ pc'[h] = "idle" /\ ret'[h].kind = "hit") =>
                LET p == ret'[h].ptr
                    q == sessions[heap'[p].id]
                IN /\ p # q
                   /\ heap'[p].values # heap[q].values
                   /\ maps'[heap'[p].values] = maps[heap[q].values]
                   /\ maps'[heap[q].values] = maps[heap[q].values]
       /\ (heap' = heap /\ maps' # maps) =>
              \A p, q \in 1..Len(heap) :
                  (p # q /\ maps'[heap[p].values] # maps[heap[p].values])
                  => maps'[heap[q].values] = maps[heap[q].values]]_vars

\* C2's case: a session was saved, a Get that presented its id returned a
\* copy, and after a later write the copy says Bella where the stored session
\* says Coco.
C2_Witness ==
    \E h \in Handlers :
        /\ ret[h].kind = "hit"
        /\ heap[ret[h].ptr].id \in DOMAIN sessions
        /\ LET p == ret[h].ptr
               q == sessions[heap[p].id]
           IN /\ p # q
              /\ heap[q].isNew
              /\ "name" \in DOMAIN maps[heap[p].values]
              /\ "name" \in DOMAIN maps[heap[q].values]
              /\ maps[heap[p].values]["name"] = "Bella"
              /\ maps[heap[q].values]["name"] = "Coco"

\* A session is live while a handler holds it or the table holds it before
\* its expiry.
Live(p) ==
    \/ \E h \in Handlers : ret[h].ptr = p
    \/ \E c \in DOMAIN sessions : sessions[c] = p /\ heap[p].expiry > now

\* C7 as stated: no two live sessions that were created on a miss share an
\* id, the sessions a handler holds and has not saved included.
C7_LiveIdsDistinct ==
    \A p, q \in 1..Len(heap) :
        (p # q /\ heap[p].isNew /\ heap[q].isNew /\ Live(p) /\ Live(q))
        => heap[p].id # heap[q].id

\* C10: the step of save that holds the write lock reports no error, leaves
\* the saver's own session object under its id, whatever was there before,
\* and changes no other entry, no session and no Values map; so after two
\* saves of the same id the entry is the session of the one that took the
\* lock last, as that handler left it.
C10_LastWriterWins ==
    [][\A h \in Handlers :
         (pc[h] = "save" /\ pc'[h] = "idle") =>
             LET p == ret[h].ptr
                 id == heap[p].id
             IN /\ ret'[h].kind = "saved"
                /\ DOMAIN sessions' = DOMAIN sessions \cup {id}
                /\ sessions'[id] = p
                /\ \A c \in DOMAIN sessions \ {id} : sessions'[c] = sessions[c]
                /\ heap' = heap
                /\ maps' = maps]_vars

\* C10's case: two handlers hold copies of the same id that Get returned to
\* them, one says Coco and the other Bella, both have saved, and the table
\* holds the copy of one of them.
C10_Witness ==
    \E h1, h2 \in Handlers :
        LET p == ret[h1].ptr
            q == ret[h2].ptr
        IN /\ ret[h1].kind = "saved" /\ ret[h2].kind = "saved"
           /\ p # q
           /\ ~heap[p].isNew /\ ~heap[q].isNew
           /\ heap[p].id = heap[q].id
           /\ maps[heap[p].values] = [k \in {"name"} |-> "Coco"]
           /\ maps[heap[q].values] = [k \in {"name"} |-> "Bella"]
           /\ heap[p].id \in DOMAIN sessions
           /\ sessions[heap[p].id] = q

\* ============================================ MemoryStore (example/main.go)
\* Its sessions are made by NewSession(name, id, options) and changed by
\* SetMaxAge, as modelled above.

\* MemoryStore.Get, lines 90-97: the name check, the cookie, the lookup.
MemoryStore_Get(h) ==
    /\ pc[h] = "idle"
    /\ \E nameValid \in BOOLEAN, c \in IDS \cup {NoCookie} :
         IF ~nameValid
         THEN /\ ret' = [ret EXCEPT ![h] = [NoRet EXCEPT !.kind = "invalidName"]]
              /\ UNCHANGED pc
         ELSE IF c \in DOMAIN sessions
              THEN /\ pc' = [pc EXCEPT ![h] = "hit"]
                   /\ ret' = [ret EXCEPT ![h] = [NoRet EXCEPT !.ptr = sessions[c]]]
              ELSE /\ pc' = [pc EXCEPT ![h] = "generateID"]
                   /\ ret' = [ret EXCEPT ![h] = NoRet]
    /\ UNCHANGED <<now, heap, sessions, cookie, cand, gcpc, expired, maps, removed, name>>

\* MemoryStore.Get, lines 98-101: the hit.
MemoryStore_GetHit(h) ==
    /\ pc[h] = "hit"
    /\ heap' = [heap EXCEPT ![ret[h].ptr].isNew = FALSE]
    /\ ret' = [ret EXCEPT ![h].kind = "hit", ![h].isNew = heap'[ret[h].ptr].isNew,
                           ![h].found = TRUE]
    /\ pc' = [pc EXCEPT ![h] = "idle"]
    /\ UNCHANGED <<now, sessions, cookie, cand, gcpc, expired, maps, removed, name>>

\* MemoryStore.generateID: one round of the loop.
MemoryStore_generateID(h) ==
    /\ pc[h] = "generateID"
    /\ \E randOk \in BOOLEAN, id \in IDS :
         IF ~randOk
         THEN /\ ret' = [ret EXCEPT ![h] = [NoRet EXCEPT !.kind = "error"]]
              /\ pc' = [pc EXCEPT ![h] = "idle"]
              /\ UNCHANGED cand
         ELSE IF id \in DOMAIN sessions
         THEN UNCHANGED <<ret, pc, cand>>
         ELSE /\ cand' = [cand EXCEPT ![h] = id]
              /\ pc' = [pc EXCEPT ![h] = "New"]
              /\ UNCHANGED ret
    /\ UNCHANGED <<now, heap, sessions, cookie, gcpc, expired, maps, removed, name>>

\* MemoryStore.New, lines 114-119.  The id is issued to a new session: it
\* leaves the history of removed ids.
MemoryStore_New(h) ==
    /\ pc[h] = "New"
    /\ Len(heap) < MaxObjects
    /\ LET p == Len(heap) + 1
           id == cand[h]
       IN /\ heap' = Append(heap, NewSession(id, defaultOptions_MaxAge, now))
          /\ sessions' = MapPut(sessions, id, p)
          /\ removed' = removed \ {id}
          /\ ret' = [ret EXCEPT ![h] = [kind |-> "new", ptr |-> p,
                                        isNew |-> heap'[p].isNew, found |-> FALSE]]
    /\ pc' = [pc EXCEPT ![h] = "idle"]
    /\ cand' = [cand EXCEPT ![h] = NoCookie]
    /\ UNCHANGED <<now, cookie, gcpc, expired, maps, name>>

\* MemoryStore.Save, lines 123-126, on the session the handler holds.
MemoryStore_Save(h) ==
    /\ pc[h] = "idle"
    /\ ret[h].ptr # Nil
    /\ sessions' = MapPut(sessions, heap[ret[h].ptr].id, ret[h].ptr)
    /\ ret' = [ret EXCEPT ![h].kind = "saved", ![h].found = FALSE]
    /\ UNCHANGED <<now, heap, pc, cookie, cand, gcpc, expired, maps, removed, name>>

\* A delete that empties the table.
MemoryStore_delete_All(tbl, id) == <<>>

\* MemoryStore.Delete, line 132: delete(s.sessions, session.data.ID).
MemoryStore_delete(tbl, id) == MapDelete(tbl, id)

\* MemoryStore.Delete, lines 130-133, on the session the handler holds.
MemoryStore_Delete(h) ==
    /\ pc[h] = "idle"
    /\ ret[h].ptr # Nil
    /\ sessions' = MemoryStore_delete(sessions, heap[ret[h].ptr].id)
    /\ removed' = removed \cup (DOMAIN sessions \ DOMAIN sessions')
    /\ ret' = [ret EXCEPT ![h].kind = "deleted",
                           ![h].found = heap[ret[h].ptr].id \in DOMAIN sessions]
    /\ UNCHANGED <<now, heap, pc, cookie, cand, gcpc, expired, maps, name>>

\* MemoryStore.gc, lines 158-164: one tick, the sweep under the write lock.
MemoryStore_gc ==
    /\ sessions' = [c \in DOMAIN sessions \ Overdue(sessions, heap, now) |-> sessions[c]]
    /\ removed' = removed \cup Overdue(sessions, heap, now)
    /\ UNCHANGED <<now, heap, pc, cookie, cand, ret, gcpc, expired, maps, name>>

NextMemoryStore ==
    \/ Tick
    \/ \E h \in Handlers : MemoryStore_Get(h)
    \/ \E h \in Handlers : MemoryStore_GetHit(h)
    \/ \E h \in Handlers : MemoryStore_generateID(h)
    \/ \E h \in Handlers : MemoryStore_New(h)
    \/ \E h \in Handlers : Session_SetMaxAge(h)
    \/ \E h \in Handlers : MemoryStore_Save(h)
    \/ \E h \in Handlers : MemoryStore_Delete(h)
    \/ MemoryStore_gc

SpecMemoryStore == Init /\ [][NextMemoryStore]_vars

\* ===================================================== claims, MemoryStore

\* C8 as stated: an id that Delete or gc has removed, and that New has not
\* issued to a new session since, is not in the table, so that a Get
\* presenting it is a miss.
C8_NoResurrection == \A c \in removed : c \notin DOMAIN sessions

\* C9: Delete reports no error, removes the entry of the session's id, is a
\* no-op when that id has no entry, and leaves every other entry as it was.
C9_DeleteIdempotent ==
    [][\A h \in Handlers :
         MemoryStore_Delete(h) =>
             LET id == heap[ret[h].ptr].id
             IN /\ ret'[h].kind = "deleted"
                /\ id \notin DOMAIN sessions'
                /\ id \notin DOMAIN sessions => sessions' = sessions
                /\ DOMAIN sessions' = DOMAIN sessions \ {id}
                /\ \A c \in DOMAIN sessions' : sessions'[c] = sessions[c]
                /\ heap' = heap]_vars

\* C9's case: a handler has called Delete on a session whose id had no entry
\* any more, while the table holds the entry of another id.
C9_Witness ==
    \E h \in Handlers :
        /\ ret[h].kind = "deleted"
        /\ ~ret[h].found
        /\ heap[ret[h].ptr].id \notin DOMAIN sessions
        /\ DOMAIN sessions # {}

\* ==================================== Session (session.go 10-190), its lock
\* The methods of Session step by step: taking the package-level mutex, the
\* body, releasing it.  A handler's pc names the method it is inside; who
\* holds the mutex, and how, follows from the pcs.  The values map of the
\* session behind pointer p is maps[p].

\* The methods that take mutex.RLock and the methods that take mutex.Lock.
RLockers == {"GetValueByKey", "InsertValue", "ModifyValueByKey"}
Lockers == {"SetIsNew"}

\* sync.RWMutex: RLock waits while a writer holds the mutex, Lock waits
\* while anybody holds it.
CanRLock == \A h \in Handlers : pc[h] \notin Lockers
CanLock == \A h \in Handlers : pc[h] \notin Lockers \cup RLockers

\* A handler gets hold of a session: a new one from NewSession, or the
\* pointer to one that exists (cookieStore.Get returns the stored pointer).
Session_Obtain(h) ==
    /\ pc[h] = "idle"
    /\ \/ /\ Len(heap) < MaxObjects
          /\ \E id \in IDS :
               heap' = Append(heap, NewSession(id, cookieStore_MaxAge, now))
          /\ maps' = Append(maps, <<>>)
          /\ ret' = [ret EXCEPT ![h] = [NoRet EXCEPT !.kind = "done",
                                                      !.ptr = Len(heap) + 1]]
       \/ /\ \E p \in 1..Len(heap) :
               ret' = [ret EXCEPT ![h] = [NoRet EXCEPT !.kind = "done", !.ptr = p]]
          /\ UNCHANGED <<heap, maps>>
    /\ UNCHANGED <<now, sessions, pc, cookie, cand, gcpc, expired, removed, name>>

\* The first statement of a method: mutex.RLock() or mutex.Lock().
Session_Enter(h) ==
    /\ pc[h] = "idle"
    /\ ret[h].ptr # Nil
    /\ \E method \in RLockers \cup Lockers :
         /\ method \in RLockers => CanRLock
         /\ method \in Lockers => CanLock
         /\ pc' = [pc EXCEPT ![h] = method]
    /\ UNCHANGED <<now, heap, sessions, cookie, cand, ret, gcpc, expired, maps, removed, name>>

\* GetValueByKey, lines 79-83, and the deferred RUnlock.
Session_GetValueByKey(h) ==
    /\ pc[h] = "GetValueByKey"
    /\ \E k \in Keys :
         ret' = [ret EXCEPT ![h].kind = IF k \in DOMAIN maps[ret[h].ptr]
                                        THEN "done" ELSE "error"]
    /\ pc' = [pc EXCEPT ![h] = "idle"]
    /\ UNCHANGED <<now, heap, sessions, cookie, cand, gcpc, expired, maps, removed, name>>

\* InsertValue, line 92, and the deferred RUnlock.
Session_InsertValue(h) ==
    /\ pc[h] = "InsertValue"
    /\ \E k \in Keys, v \in Registered :
         maps' = [maps EXCEPT ![ret[h].ptr] = MapPut(@, k, v)]
    /\ pc' = [pc EXCEPT ![h] = "idle"]
    /\ UNCHANGED <<now, heap, sessions, cookie, cand, ret, gcpc, expired, removed, name>>

\* ModifyValueByKey, lines 101-105, and the deferred RUnlock.
Session_ModifyValueByKey(h) ==
    /\ pc[h] = "ModifyValueByKey"
    /\ \E k \in Keys, v \in Registered :
         IF k \in DOMAIN maps[ret[h].ptr]
         THEN /\ maps' = [maps EXCEPT ![ret[h].ptr] = MapPut(@, k, v)]
              /\ ret' = [ret EXCEPT ![h].kind = "done"]
         ELSE /\ ret' = [ret EXCEPT ![h].kind = "error"]
              /\ UNCHANGED maps
    /\ pc' = [pc EXCEPT ![h] = "idle"]
    /\ UNCHANGED <<now, heap, sessions, cookie, cand, gcpc, expired, removed, name>>

\* SetIsNew, line 64, and the deferred Unlock.
Session_SetIsNew_Body(h) ==
    /\ pc[h] = "SetIsNew"
    /\ \E b \in BOOLEAN : heap' = SetIsNew(heap, ret[h].ptr, b)
    /\ pc' = [pc EXCEPT ![h] = "idle"]
    /\ UNCHANGED <<now, sessions, cookie, cand, ret, gcpc, expired, maps, removed, name>>

NextSession ==
    \/ \E h \in Handlers : Session_Obtain(h)
    \/ \E h \in Handlers : Session_Enter(h)
    \/ \E h \in Handlers : Session_GetValueByKey(h)
    \/ \E h \in Handlers : Session_InsertValue(h)
    \/ \E h \in Handlers : Session_ModifyValueByKey(h)
    \/ \E h \in Handlers : Session_SetIsNew_Body(h)

SpecSession == Init /\ [][NextSession]_vars

\* ========================================================= claims, Session

\* The methods that write the values map and the one that reads it.
ValuesWriters == {"InsertValue", "ModifyValueByKey"}
ValuesReaders == {"GetValueByKey"}

\* C11 as stated: no two handlers are at the same time inside InsertValue or
\* ModifyValueByKey of the same Session, and no handler is inside
\* GetValueByKey of a Session while another is inside one of the two.
C11_WritersExclusive ==
    \A h1, h2 \in Handlers :
        (h1 # h2 /\ ret[h1].ptr = ret[h2].ptr /\ pc[h1] \in ValuesWriters)
        => pc[h2] \notin ValuesWriters \cup ValuesReaders

\* =============================== cookieStore with the callers' SetIsNew
\* A handler calls SetIsNew(b) on the session its last Get returned.
Session_SetIsNew(h) ==
    /\ Running
    /\ pc[h] = "idle"
    /\ ret[h].ptr # Nil
    /\ \E b \in BOOLEAN : heap' = SetIsNew(heap, ret[h].ptr, b)
    /\ UNCHANGED <<now, sessions, pc, cookie, cand, ret, gcpc, expired, aux>>

NextCookieSetters ==
    \/ NextCookie
    \/ \E h \in Handlers : Session_SetIsNew(h)

SpecCookieSetters == Init /\ [][NextCookieSetters]_vars

\* C12 as stated: the isNew flag of a session that is in the table and
\* before its expiry never goes from false to true.
C12_FlagNeverTrueAgain ==
    [][\A c \in DOMAIN sessions :
         (heap[sessions[c]].expiry > now /\ ~heap[sessions[c]].isNew)
         => ~heap'[sessions[c]].isNew]_vars

\* C12 amended: a session is created with isNew = true; every Get that hits
\* its id leaves the flag false; and any other change of the flag, the one
\* from false to true included, is a caller's SetIsNew.
C12_FlagChangesByHitOrSetter ==
    [][/\ \A p \in 1..Len(heap') :
            /\ p > Len(heap) => heap'[p].isNew
            /\ (p <= Len(heap) /\ heap[p].isNew # heap'[p].isNew) =>
                   \/ \E h \in Handlers : Session_SetIsNew(h)
                   \/ /\ heap[p].isNew
                      /\ \E h \in Handlers :
                             pc[h] = "hit" /\ pc'[h] = "idle" /\ ret[h].ptr = p
       /\ \A h \in Handlers :
            (pc[h] = "hit" /\ pc'[h] = "idle") => ~heap'[ret[h].ptr].isNew]_vars

\* C12's case: a Get has hit a session and returned it with isNew = false,
\* the session is in the table before its expiry, and its flag is true.
C12_Witness ==
    \E h \in Handlers :
        /\ ret[h].kind = "hit" /\ ~ret[h].isNew
        /\ heap[ret[h].ptr].isNew
        /\ heap[ret[h].ptr].expiry > now
        /\ \E c \in DOMAIN sessions : sessions[c] = ret[h].ptr

\* ============================================== claims, cookieStore errors

\* The results of Get that are an error.
Errors == {"invalidName", "error"}

\* C13: a Get whose name is not a valid cookie name returns the error and no
\* session at once, with the table, the sessions and the ids generated so
\* far as they were; and whatever Get has returned is either a session
\* without an error or an error without a session.
C13_InvalidNameIsAnError ==
    [][/\ \A h \in Handlers, c \in IDS \cup {NoCookie} :
            cookieStore_GetOf(h, FALSE, c) =>
                /\ ret'[h].kind \in Errors /\ ret'[h].ptr = Nil
                /\ pc'[h] = "idle"
                /\ sessions' = sessions /\ heap' = heap /\ cand' = cand
       /\ \A h \in Handlers :
            pc'[h] = "idle" =>
                /\ ret'[h].kind \in Errors => ret'[h].ptr = Nil
                /\ ret'[h].kind \in {"hit", "new"} => ret'[h].ptr \in 1..Len(heap')]_vars

\* C13's case: a handler's Get was refused for its name while the table
\* holds a session and the other handler is in the middle of a Get.
C13_Witness ==
    \E h1, h2 \in Handlers :
        /\ ret[h1].kind = "invalidName" /\ pc[h1] = "idle"
        /\ pc[h2] = "New"
        /\ DOMAIN sessions # {}

\* C17 as stated: every call of generateID ends, with an id or with an
\* error: a handler inside generateID leaves it.
C17_generateIDReturns ==
    \A h \in Handlers : (pc[h] = "generateID") ~> (pc[h] # "generateID")

\* C21 as stated: what the table holds for an id changes only by a save: a
\* handler's write to the Values of the session it holds leaves the Values
\* of every session in the table as they were.
C21_TableChangesOnlyBySave ==
    [][(heap' = heap /\ maps' # maps) =>
           \A c \in DOMAIN sessions :
               maps'[heap[sessions[c]].values] = maps[heap[sessions[c]].values]]_vars

\* C26 as stated: every id the delete phase of gc examines is in the table,
\* ids collected on an earlier tick included, so gc never dereferences the
\* nil entry of a missing id.
C26_DeletePhaseFindsEveryId ==
    /\ gcpc # "panic"
    /\ gcpc = "delete" => \A i \in 1..Len(expired) : expired[i] \in DOMAIN sessions

\* C27 as stated: the session a Get returns as a hit has its expiry after the
\* time of the return.
C27_HitIsNotExpired ==
    [][\A h \in Handlers :
         (pc[h] = "hit" /\ pc'[h] = "idle" /\ ret'[h].kind = "hit")
         => heap'[ret'[h].ptr].expiry > now']_vars

\* C28 as stated: the write IsNew = false of a hit is made under a lock, so
\* no two handlers are at that write on the same session together.  (A
\* handler at "hit" has released the table lock and holds no other.)
C28_HitWriteIsExclusive ==
    \A h, g \in Handlers :
        (h # g /\ pc[h] = "hit" /\ pc[g] = "hit") => ret[h].ptr # ret[g].ptr

\* C16: when the request's cookie names a stored session whose Values
\* DeepCopyMap cannot copy, New ends Get with the error and no session: no
\* session object and no map is made or changed, the table is unchanged and
\* the handler is back outside the store, its read lock released.
C16_CopyErrorPropagates ==
    [][\A h \in Handlers, c \in IDS :
         (/\ memoryStore_NewOf(h, c)
          /\ c \in DOMAIN sessions
          /\ \E k \in DOMAIN maps[heap[sessions[c]].values] :
                maps[heap[sessions[c]].values][k] \in Unregistered)
         => /\ ret'[h].kind = "error"
            /\ ret'[h].ptr = Nil
            /\ sessions' = sessions
            /\ heap' = heap
            /\ maps' = maps
            /\ pc'[h] = "idle"]_vars

C16_Witness ==
    \E h \in Handlers, c \in IDS :
        /\ pc[h] = "idle"
        /\ ret[h].kind = "error"
        /\ ret[h].found
        /\ c \in DOMAIN sessions
        /\ \E k \in DOMAIN maps[heap[sessions[c]].values] :
              maps[heap[sessions[c]].values][k] \in Unregistered

\* ======================= CopyableMap / CopyableSlice (serializer.go 24-79)
\* A payload is a graph of containers in the heap maps: maps[r] is the
\* container behind reference r, with its Go type and its elements.  An
\* element is a scalar (ref = Nil) or a reference to a nested container.  A
\* handler's ret[h].ptr is the root it holds.

\* The container types DeepCopy recurses into, and two it does not.
GenericMap == "map[string]interface{}"
GenericSlice == "[]interface{}"
TypedContainers == {"map[string]int", "[]string"}
ContainerTypes == {GenericMap, GenericSlice} \cup TypedContainers

Scalar(v) == [ref |-> Nil, val |-> v]
Ref(r) == [ref |-> r, val |-> "container"]

\* The containers one can reach from reference r.
RECURSIVE Reach(_, _)
Reach(hp, r) ==
    IF r = Nil THEN {}
    ELSE {r} \cup UNION {Reach(hp, hp[r].elems[i].ref) : i \in 1..Len(hp[r].elems)}

\* CopyableMap.DeepCopy (lines 31-53) and CopyableSlice.DeepCopy (lines
\* 57-79) of the container behind r: the new container is appended to the
\* heap.  CopyElems is the loop over the elements: a map[string]interface{}
\* or []interface{} element is copied in turn, any other element is assigned
\* as it is (lines 49 and 75).
RECURSIVE CopyableDeepCopy(_, _)
RECURSIVE CopyElems(_, _, _)
CopyElems(hp, es, acc) ==
    IF es = <<>> THEN [hp |-> hp, elems |-> acc]
    ELSE LET v == Head(es)
         IN IF v.ref # Nil /\ hp[v.ref].type \in {GenericMap, GenericSlice}
            THEN LET d == CopyableDeepCopy(hp, v.ref)
                 IN CopyElems(d.hp, Tail(es), Append(acc, Ref(d.ref)))
            ELSE CopyElems(hp, Tail(es), Append(acc, v))

CopyableDeepCopy(hp, r) ==
    LET c == CopyElems(hp, hp[r].elems, <<>>)
    IN [hp |-> Append(c.hp, [type |-> hp[r].type, elems |-> c.elems]),
        ref |-> Len(c.hp) + 1]

\* The caller makes a container of scalars.
Payload_Make ==
    /\ \A h \in Handlers : ret[h].kind # "copied"
    /\ Len(maps) < MaxContainers
    /\ \E T \in ContainerTypes, n \in 1..MaxElems :
         maps' = Append(maps, [type |-> T, elems |-> [i \in 1..n |-> Scalar("Coco")]])
    /\ UNCHANGED <<now, heap, sessions, pc, cookie, cand, ret, gcpc, expired, removed, name>>

\* The caller nests an earlier container q in a map[string]interface{} or
\* []interface{} r.
Payload_Nest ==
    /\ \A h \in Handlers : ret[h].kind # "copied"
    /\ \E r \in 1..Len(maps), q \in 1..Len(maps), i \in 1..MaxElems :
         /\ q < r
         /\ maps[r].type \in {GenericMap, GenericSlice}
         /\ i <= Len(maps[r].elems)
         /\ maps' = [maps EXCEPT ![r].elems[i] = Ref(q)]
    /\ UNCHANGED <<now, heap, sessions, pc, cookie, cand, ret, gcpc, expired, removed, name>>

\* A handler takes a map[string]interface{} as its payload.
Payload_Hold(h) ==
    /\ \A g \in Handlers : ret[g].ptr = Nil
    /\ \E r \in 1..Len(maps) :
         /\ maps[r].type = GenericMap
         /\ ret' = [ret EXCEPT ![h] = [NoRet EXCEPT !.kind = "built", !.ptr = r]]
    /\ UNCHANGED <<now, heap, sessions, pc, cookie, cand, gcpc, expired, maps, removed, name>>

\* A handler calls CopyableMap(m).DeepCopy() on the other handler's payload
\* and holds the result.
CopyableMap_DeepCopy(h) ==
    /\ ret[h].ptr = Nil
    /\ \E g \in Handlers \ {h} :
         /\ ret[g].ptr # Nil
         /\ LET d == CopyableDeepCopy(maps, ret[g].ptr)
            IN /\ maps' = d.hp
               /\ ret' = [ret EXCEPT ![h] = [NoRet EXCEPT !.kind = "copied",
                                                           !.ptr = d.ref]]
    /\ UNCHANGED <<now, heap, sessions, pc, cookie, cand, gcpc, expired, removed, name>>

\* A handler writes a scalar into a container of its payload, at any depth.
Payload_Write(h) ==
    /\ ret[h].ptr # Nil
    /\ \E r \in Reach(maps, ret[h].ptr), i \in 1..MaxElems, v \in Registered :
         /\ i <= Len(maps[r].elems)
         /\ maps[r].elems[i].ref = Nil
         /\ maps' = [maps EXCEPT ![r].elems[i] = Scalar(v)]
    /\ UNCHANGED <<now, heap, sessions, pc, cookie, cand, ret, gcpc, expired, removed, name>>

NextCopyable ==
    \/ Payload_Make
    \/ Payload_Nest
    \/ \E h \in Handlers : Payload_Hold(h)
    \/ \E h \in Handlers : CopyableMap_DeepCopy(h)
    \/ \E h \in Handlers : Payload_Write(h)

SpecCopyable == Init /\ [][NextCopyable]_vars

\* ======================================================= claims, deep copy

\* C14 as stated: the copy and its input share no container, so that a
\* write at any depth of one cannot show in the other.
C14_CopySharesNothing ==
    \A h, g \in Handlers :
        (ret[h].kind = "copied" /\ ret[g].kind = "built")
        => Reach(maps, ret[h].ptr) \cap Reach(maps, ret[g].ptr) = {}
\* C15 as stated: DeepCopy never places a container of a type it does not
\* recurse into in its result; such a payload makes the copy fail instead.
C15_NoContainerByReference ==
    \A h \in Handlers :
        ret[h].kind = "copied"
        => \A r \in Reach(maps, ret[h].ptr) : maps[r].type \notin TypedContainers

\* ============================================ RedisStore (redis_store.go)
\* sessions is the remote keyspace: id -> the stored value, an object of the
\* heap that holds the serialized session.  A handler's session is another
\* object of the heap.  Every remote command succeeds ("ok") or fails with
\* an error that is not redis.Nil ("err").

Names == {"sid", "cart"}
Remote == {"ok", "err"}
RedisStore_MaxAge == 60

\* What client.Get(ctx, sessionID).Result() reports.  A GET outcome that
\* takes every failure for a miss.
Redis_Get_ErrorIsMiss(tbl, c, remote) ==
    IF remote = "ok" /\ c \in DOMAIN tbl THEN "hit" ELSE "Nil"

Redis_Get(tbl, c, remote) ==
    IF remote = "err" THEN "err"
    ELSE IF c \in DOMAIN tbl THEN "hit"
    ELSE "Nil"

\* A SET that does not reach the keyspace.
Redis_Set_Lost(tbl, id, p) == tbl

\* client.Set(ctx, id, data, expiration) that succeeds.
Redis_Set(tbl, id, p) == MapPut(tbl, id, p)

\* RedisStore.Get, lines 70-94, for the request (n, c): the name check, the
\* cookie and the remote GET.
RedisStore_GetOf(h, n, nameValid, c, remote) ==
    /\ pc[h] = "idle"
    /\ IF ~nameValid
       THEN /\ ret' = [ret EXCEPT ![h] = [NoRet EXCEPT !.kind = "invalidName"]]
            /\ UNCHANGED <<heap, pc, cookie, name>>
       ELSE /\ cookie' = [cookie EXCEPT ![h] = c]
            /\ name' = [name EXCEPT ![h] = n]
            /\ IF c = NoCookie
               THEN /\ pc' = [pc EXCEPT ![h] = "generateID"]
                    /\ ret' = [ret EXCEPT ![h] = NoRet]
                    /\ UNCHANGED heap
               ELSE LET got == Redis_Get(sessions, c, remote)
                    IN IF got = "err"
                       THEN /\ ret' = [ret EXCEPT ![h] = [NoRet EXCEPT !.kind = "getError"]]
                            /\ UNCHANGED <<heap, pc>>
                       ELSE IF got = "Nil"
                       THEN /\ pc' = [pc EXCEPT ![h] = "generateID"]
                            /\ ret' = [ret EXCEPT ![h] = NoRet]
                            /\ UNCHANGED heap
                       ELSE /\ Len(heap) < MaxRedisObjects
                            /\ heap' = Append(heap, [heap[sessions[c]] EXCEPT !.isNew = FALSE])
                            /\ ret' = [ret EXCEPT ![h] = [kind |-> "hit",
                                                          ptr |-> Len(heap) + 1,
                                                          isNew |-> FALSE,
                                                          found |-> TRUE]]
                            /\ UNCHANGED pc
    /\ UNCHANGED <<now, sessions, cand, gcpc, expired, maps, removed>>

RedisStore_Get(h) ==
    \E n \in Names, nameValid \in BOOLEAN, c \in IDS \cup {NoCookie}, remote \in Remote :
        RedisStore_GetOf(h, n, nameValid, c, remote)

\* RedisStore.generateID, lines 53-67: one round of the loop, with the
\* remote EXISTS.
RedisStore_generateID(h) ==
    /\ pc[h] = "generateID"
    /\ \E randOk \in BOOLEAN, id \in IDS, remote \in Remote :
         IF ~randOk \/ remote = "err"
         THEN /\ ret' = [ret EXCEPT ![h] = [NoRet EXCEPT !.kind = "error"]]
              /\ pc' = [pc EXCEPT ![h] = "idle"]
              /\ UNCHANGED cand
         ELSE IF id \in DOMAIN sessions
         THEN UNCHANGED <<ret, pc, cand>>
         ELSE /\ cand' = [cand EXCEPT ![h] = id]
              /\ pc' = [pc EXCEPT ![h] = "Save"]
              /\ UNCHANGED ret
    /\ UNCHANGED <<now, heap, sessions, cookie, gcpc, expired, maps, removed, name>>

\* RedisStore.New, lines 97-109, and its call of Save, lines 112-123: the
\* new session, its serialization and the remote SET.
RedisStore_NewOf(h, serOk, remote) ==
    /\ pc[h] = "Save"
    /\ Len(heap) + 2 <= MaxRedisObjects
    /\ LET p == Len(heap) + 1
           id == cand[h]
           session == NewSession(id, RedisStore_MaxAge, now) @@ [name |-> name[h]]
       IN IF ~serOk \/ remote = "err"
          THEN /\ ret' = [ret EXCEPT ![h] = [NoRet EXCEPT !.kind = "error"]]
               /\ UNCHANGED <<heap, sessions>>
          ELSE /\ heap' = heap \o <<session, session>>
               /\ sessions' = Redis_Set(sessions, id, p + 1)
               /\ ret' = [ret EXCEPT ![h] = [kind |-> "new", ptr |-> p,
                                             isNew |-> heap'[p].isNew,
                                             found |-> FALSE]]
    /\ pc' = [pc EXCEPT ![h] = "idle"]
    /\ cand' = [cand EXCEPT ![h] = NoCookie]
    /\ UNCHANGED <<now, cookie, gcpc, expired, maps, removed, name>>

RedisStore_New(h) ==
    \E serOk \in BOOLEAN, remote \in Remote : RedisStore_NewOf(h, serOk, remote)

\* RedisStore.Delete, lines 126-132: the remote DEL of the session's id.
RedisStore_Delete(h) ==
    /\ pc[h] = "idle"
    /\ ret[h].ptr # Nil
    /\ \E remote \in Remote :
         IF remote = "err"
         THEN /\ ret' = [ret EXCEPT ![h] = [NoRet EXCEPT !.kind = "error"]]
              /\ UNCHANGED sessions
         ELSE /\ sessions' = MapDelete(sessions, heap[ret[h].ptr].id)
              /\ ret' = [ret EXCEPT ![h] = [NoRet EXCEPT !.kind = "deleted"]]
    /\ UNCHANGED <<now, heap, pc, cookie, cand, gcpc, expired, maps, removed, name>>

NextRedis ==
    \/ \E h \in Handlers : RedisStore_Get(h)
    \/ \E h \in Handlers : RedisStore_generateID(h)
    \/ \E h \in Handlers : RedisStore_New(h)
    \/ \E h \in Handlers : RedisStore_Delete(h)

SpecRedis == Init /\ [][NextRedis]_vars

\* ========================================================= claims, Redis

\* C18: a Get with a cookie whose remote GET fails with an error other than
\* redis.Nil returns that error and no session and writes nothing; a Get
\* whose remote GET misses goes on to New and never returns the GET's
\* error, and the session New then returns is fresh and stored under the id
\* generateID gave.
C18_MissIsNotError ==
    [][\A h \in Handlers, n \in Names, c \in IDS :
         /\ RedisStore_GetOf(h, n, TRUE, c, "err")
            => /\ ret'[h].kind = "getError"
               /\ ret'[h].ptr = Nil
               /\ pc'[h] = "idle"
               /\ sessions' = sessions
               /\ heap' = heap
         /\ (RedisStore_GetOf(h, n, TRUE, c, "ok") /\ c \notin DOMAIN sessions)
            => /\ pc'[h] = "generateID"
               /\ ret'[h].kind # "getError"
               /\ sessions' = sessions
         /\ (pc[h] = "Save" /\ ret'[h].kind = "new" /\ cookie[h] # NoCookie)
            => /\ heap'[ret'[h].ptr].isNew
               /\ heap'[ret'[h].ptr].id = cand[h]
               /\ cand[h] \in DOMAIN sessions'
               /\ heap'[sessions'[cand[h]]] = heap'[ret'[h].ptr]]_vars

C18_Witness ==
    \E h, g \in Handlers :
        /\ pc[h] = "idle" /\ ret[h].kind = "new" /\ cookie[h] # NoCookie
        /\ heap[ret[h].ptr].id \in DOMAIN sessions
        /\ pc[g] = "idle" /\ ret[g].kind = "getError" /\ cookie[g] \in DOMAIN sessions
\* C19: when New returns a session, the remote keyspace holds a value under
\* the session's id, and the session has the requested name and is new; when
\* the remote SET fails, New returns the error and no session and the
\* keyspace is as it was.
C19_NewPersistsBeforeReturn ==
    [][\A h \in Handlers :
         /\ (pc[h] = "Save" /\ pc'[h] = "idle" /\ ret'[h].kind # "error")
            => /\ ret'[h].kind = "new"
               /\ ret'[h].ptr \in 1..Len(heap')
               /\ heap'[ret'[h].ptr].id \in DOMAIN sessions'
               /\ Redis_Get(sessions', heap'[ret'[h].ptr].id, "ok") = "hit"
               /\ heap'[ret'[h].ptr].name = name[h]
               /\ heap'[ret'[h].ptr].isNew
         /\ \A serOk \in BOOLEAN :
              RedisStore_NewOf(h, serOk, "err")
              => /\ ret'[h].kind = "error"
                 /\ ret'[h].ptr = Nil
                 /\ sessions' = sessions]_vars

C19_Witness ==
    \E h, g \in Handlers :
        /\ h # g
        /\ pc[h] = "idle" /\ ret[h].kind = "new" /\ name[h] = "cart"
        /\ heap[ret[h].ptr].id \in DOMAIN sessions
        /\ pc[g] = "idle" /\ ret[g].kind = "error" /\ cand[g] = NoCookie
        /\ name[g] = "sid"

\* ================================ observed eviction (GetExpiredSessions)
\* The store of the README's example: the handlers are the cookieStore's, and
\* the gc loop runs in observed mode.  A tick takes the table's write lock,
\* collects the expired ids in expired, sends that batch on the unbuffered
\* channel, waits there until the consumer has received it, then removes the
\* entries of the batch that are still expired, and releases the lock.

\* The ids of a batch.
BatchIds(batch) == {batch[i] : i \in 1..Len(batch)}

\* The removal of a tick, trusting the scan.
ObservedGc_Remove_NoRecheck(tbl, hp, batch, t) ==
    [c \in DOMAIN tbl \ BatchIds(batch) |-> tbl[c]]

\* The removal of a tick: the entries of the batch whose expiry is still at
\* or before t.
ObservedGc_Remove(tbl, hp, batch, t) ==
    [c \in DOMAIN tbl \ (BatchIds(batch) \cap Overdue(tbl, hp, t)) |-> tbl[c]]

\* The tick up to the send: the lock, the scan, and the batch offered on the
\* channel.
ObservedGc_Scan ==
    /\ gcpc = "wait"
    /\ Overdue(sessions, heap, now) # {}
    /\ \E o \in Orders(Overdue(sessions, heap, now)) : expired' = o
    /\ gcpc' = "send"
    /\ UNCHANGED <<now, heap, sessions, pc, cookie, cand, ret, aux>>

\* The consumer's goroutine receives the batch from the channel.
Consumer_Receive ==
    /\ gcpc = "send"
    /\ gcpc' = "delete"
    /\ UNCHANGED <<now, heap, sessions, pc, cookie, cand, ret, expired, aux>>

\* The tick after the send: the removal and the unlock.
ObservedGc_Delete ==
    /\ gcpc = "delete"
    /\ sessions' = ObservedGc_Remove(sessions, heap, expired, now)
    /\ expired' = <<>>
    /\ gcpc' = "wait"
    /\ UNCHANGED <<now, heap, pc, cookie, cand, ret, aux>>

\* A handler's step: those that read or write the table wait for the lock
\* the tick holds.
Observed_Handler(h) ==
    \/ /\ gcpc = "wait"
       /\ \/ cookieStore_Get(h)
          \/ cookieStore_generateID(h)
          \/ cookieStore_New(h)
    \/ cookieStore_GetHit(h)
    \/ Session_SetMaxAge(h)

NextObserved ==
    \/ Tick
    \/ \E h \in Handlers : Observed_Handler(h)
    \/ ObservedGc_Scan
    \/ Consumer_Receive
    \/ ObservedGc_Delete

SpecObserved == Init /\ [][NextObserved]_vars

\* ============================================= claims, observed eviction

\* The batch is handed over before anything is removed, and nothing is
\* removed while the batch waits for a consumer.
HandoffBeforeRemoval ==
    /\ DOMAIN sessions' # DOMAIN sessions /\ DOMAIN sessions' \subseteq DOMAIN sessions
       => gcpc = "delete" /\ gcpc' = "wait"
    /\ gcpc = "send" => sessions' = sessions /\ gcpc' \in {"send", "delete"}
    /\ (gcpc = "send" /\ gcpc' = "delete") => expired' = expired

MaxAgeWriters == {"SetMaxAge"}
MaxAgeReaders == {"GetMaxAge"}

\* The mutex looked at as if no writer ever held it.
MutexAdmitsReader_Always == TRUE

\* mutex.RLock() returns: no writer holds the mutex.
MutexAdmitsReader == \A h \in Handlers : pc[h] \notin MaxAgeWriters

\* mutex.Lock() returns: nobody holds the mutex.
MutexAdmitsWriter ==
    /\ \A h \in Handlers : pc[h] \notin MaxAgeWriters \cup MaxAgeReaders
    /\ gcpc # "scan"

\* SetMaxAge(seconds), lines 118-120: the lock and s.options.MaxAge = seconds.
SetMaxAge_BeginOf(h, seconds) ==
    /\ pc[h] = "idle"
    /\ ret[h].ptr # Nil
    /\ MutexAdmitsWriter
    /\ heap' = [heap EXCEPT ![ret[h].ptr].maxAge = seconds]
    /\ pc' = [pc EXCEPT ![h] = "SetMaxAge"]
    /\ UNCHANGED <<now, sessions, cookie, cand, ret, gcpc, expired, maps, removed, name>>

SetMaxAge_Begin(h) == \E seconds \in 0..MaxSetAge : SetMaxAge_BeginOf(h, seconds)

\* SetMaxAge, line 123 and the deferred Unlock: the expiry from the time now
\* and the seconds just stored.
SetMaxAge_End(h) ==
    /\ pc[h] = "SetMaxAge"
    /\ heap' = [heap EXCEPT ![ret[h].ptr].expiry = now + heap[ret[h].ptr].maxAge]
    /\ pc' = [pc EXCEPT ![h] = "idle"]
    /\ UNCHANGED <<now, sessions, cookie, cand, ret, gcpc, expired, maps, removed, name>>

\* GetMaxAge, lines 157-158: the read lock.
GetMaxAge_Begin(h) ==
    /\ pc[h] = "idle"
    /\ ret[h].ptr # Nil
    /\ MutexAdmitsReader
    /\ pc' = [pc EXCEPT ![h] = "GetMaxAge"]
    /\ UNCHANGED <<now, heap, sessions, cookie, cand, ret, gcpc, expired, maps, removed, name>>

\* GetMaxAge, line 159 and the deferred RUnlock.
GetMaxAge_End(h) ==
    /\ pc[h] = "GetMaxAge"
    /\ pc' = [pc EXCEPT ![h] = "idle"]
    /\ UNCHANGED <<now, heap, sessions, cookie, cand, ret, gcpc, expired, maps, removed, name>>

\* cookieStore.gc, line 118: the read lock of the scan.
gc_ScanBegin ==
    /\ gcpc = "wait"
    /\ MutexAdmitsReader
    /\ gcpc' = "scan"
    /\ UNCHANGED <<now, heap, sessions, pc, cookie, cand, ret, expired, maps, removed, name>>

\* cookieStore.gc, lines 119-124: the comparisons and the RUnlock.
gc_ScanEnd ==
    /\ gcpc = "scan"
    /\ gcpc' = "wait"
    /\ UNCHANGED <<now, heap, sessions, pc, cookie, cand, ret, expired, maps, removed, name>>

NextSetMaxAge ==
    \/ Tick
    \/ \E h \in Handlers : Session_Obtain(h)
    \/ \E h \in Handlers : SetMaxAge_Begin(h)
    \/ \E h \in Handlers : SetMaxAge_End(h)
    \/ \E h \in Handlers : GetMaxAge_Begin(h)
    \/ \E h \in Handlers : GetMaxAge_End(h)
    \/ gc_ScanBegin
    \/ gc_ScanEnd

SpecSetMaxAge == Init /\ [][NextSetMaxAge]_vars

\* ======================================================= claims, SetMaxAge

\* MaxAge and expiry of session p belong together: expiry is MaxAge seconds
\* after some time that is not in the future.
Paired(hp, p, t) == hp[p].expiry - hp[p].maxAge \in 0..t

\* C22: SetMaxAge(n) leaves MaxAge = n and expiry = (time of its last
\* statement) + n, and whenever a handler is inside GetMaxAge of a session, or
\* gc is inside its scan, the MaxAge and the expiry it can read belong
\* together.
C22_MaxAgeAndExpiryTogether ==
    [][/\ \A h \in Handlers, n \in 0..MaxSetAge :
            SetMaxAge_BeginOf(h, n) => heap'[ret[h].ptr].maxAge = n
       /\ \A h \in Handlers :
            (pc[h] = "SetMaxAge" /\ pc'[h] = "idle")
            => /\ heap'[ret[h].ptr].maxAge = heap[ret[h].ptr].maxAge
               /\ heap'[ret[h].ptr].expiry = now + heap'[ret[h].ptr].maxAge
       /\ \A h \in Handlers :
            pc'[h] = "GetMaxAge" => Paired(heap', ret'[h].ptr, now')
       /\ gcpc' = "scan" => \A p \in 1..Len(heap') : Paired(heap', p, now')]_vars

\* C22's case: one handler is between the two assignments of SetMaxAge, with
\* the new MaxAge and the old expiry in the session, and the other handler
\* holds the same session and waits.
C22_Witness ==
    \E h, g \in Handlers :
        /\ h # g
        /\ pc[h] = "SetMaxAge"
        /\ ret[g].ptr = ret[h].ptr
        /\ pc[g] = "idle"
        /\ ~Paired(heap, ret[h].ptr, now)

\* ================= memoryStore with sessionInfo entries (store.go 324-459)
\* sessions is the table id -> sessionInfo: the pointer to the session that
\* was saved and the entry's expiresTimestamp.

\* The entries the tick of monitorExpiredSessions (line 439) and of
\* deleteExpiredSessions (part_006 line 151) deletes at time t.
infoStore_Doomed(tbl, t) == {k \in DOMAIN tbl : tbl[k].expiresTimestamp >= t}

\* memoryStore.New, lines 369-391.
infoStore_New(h) ==
    /\ pc[h] = "New"
    /\ Len(heap) < MaxInfoSessions
    /\ \E c \in IDS \cup {NoCookie} :
       LET p == Len(heap) + 1
           session == NewMySession(cand[h], memoryStore_MaxAge, now, p)
           fresh == Append(maps, <<>>)
       IN IF c \in DOMAIN sessions
          THEN LET se == heap[sessions[c].session]
                   d == DeepCopyMap(fresh, se.values, p)
               IN IF d.err
                  THEN /\ ret' = [ret EXCEPT ![h] = [NoRet EXCEPT !.kind = "error",
                                                                  !.found = TRUE]]
                       /\ UNCHANGED <<heap, maps>>
                  ELSE /\ heap' = Append(heap, [session EXCEPT !.values = d.ref,
                                                               !.maxAge = se.maxAge,
                                                               !.id = c,
                                                               !.isNew = FALSE])
                       /\ maps' = d.maps
                       /\ ret' = [ret EXCEPT ![h] = [kind |-> "hit", ptr |-> p,
                                                     isNew |-> FALSE, found |-> TRUE]]
          ELSE /\ heap' = Append(heap, session)
               /\ maps' = fresh
               /\ ret' = [ret EXCEPT ![h] = [kind |-> "new", ptr |-> p,
                                             isNew |-> TRUE, found |-> FALSE]]
    /\ pc' = [pc EXCEPT ![h] = "idle"]
    /\ cand' = [cand EXCEPT ![h] = NoCookie]
    /\ UNCHANGED <<now, sessions, cookie, gcpc, expired, removed, name>>

\* A handler writes session.Options.MaxAge = seconds on the session it holds.
Options_SetMaxAge(h) ==
    /\ pc[h] = "idle"
    /\ ret[h].ptr # Nil
    /\ \E seconds \in 0..MaxSetAge :
         heap' = [heap EXCEPT ![ret[h].ptr].maxAge = seconds]
    /\ UNCHANGED <<now, sessions, pc, cookie, cand, ret, gcpc, expired, maps, removed, name>>

\* memoryStore.Save and save, lines 396-414: the new sessionInfo under
\* session.id.
infoStore_Save(h) ==
    /\ pc[h] = "idle"
    /\ ret[h].ptr # Nil
    /\ LET p == ret[h].ptr
       IN sessions' = MapPut(sessions, heap[p].id,
                             [session |-> p, expiresTimestamp |-> now + heap[p].maxAge])
    /\ ret' = [ret EXCEPT ![h].kind = "saved"]
    /\ UNCHANGED <<now, heap, pc, cookie, cand, gcpc, expired, maps, removed, name>>

\* One tick of monitorExpiredSessions, lines 434-443, as
\* deleteExpiredSessions (part_006 lines 145-155) runs it: under the write
\* lock.
infoStore_deleteExpiredSessions ==
    /\ sessions' = [c \in DOMAIN sessions \ infoStore_Doomed(sessions, now) |-> sessions[c]]
    /\ UNCHANGED <<now, heap, pc, cookie, cand, ret, gcpc, expired, maps, removed, name>>

NextInfoStore ==
    \/ Tick
    \/ \E h \in Handlers : memoryStore_Get(h)
    \/ \E h \in Handlers : infoStore_New(h)
    \/ \E h \in Handlers : Options_SetMaxAge(h)
    \/ \E h \in Handlers : infoStore_Save(h)
    \/ infoStore_deleteExpiredSessions

SpecInfoStore == Init /\ [][NextInfoStore]_vars

\* ================================================ claims, sessionInfo store

\* C23 as stated: a save stores the entry under session.id with the expiry
\* (time of the save) + MaxAge, whatever was there before, and an entry is
\* not evicted before its expiry.
C23_SavedEntryLivesUntilExpiry ==
    [][/\ \A h \in Handlers :
            (ret[h].kind # "saved" /\ ret'[h].kind = "saved")
            => LET p == ret[h].ptr
               IN /\ heap[p].id \in DOMAIN sessions'
                  /\ sessions'[heap[p].id].session = p
                  /\ sessions'[heap[p].id].expiresTimestamp = now + heap[p].maxAge
       /\ \A c \in DOMAIN sessions :
            c \notin DOMAIN sessions' => sessions[c].expiresTimestamp <= now]_vars

\* C30 as stated: a tick removes exactly the entries whose expiresTimestamp
\* is at or before the time: the others survive it.
C30_TickRemovesExactlyTheExpired ==
    [][(DOMAIN sessions' # DOMAIN sessions /\ DOMAIN sessions' \subseteq DOMAIN sessions)
       => \A c \in DOMAIN sessions :
              c \in DOMAIN sessions' <=> sessions[c].expiresTimestamp > now]_vars

\* ============== MemoryStore.gc, the sweep entry by entry (example/main.go)
\* The tick of gc statement by statement: s.mutex.Lock(), one round of the
\* range loop per entry, s.mutex.Unlock().  expired holds the keys the range
\* has not visited yet.

\* The table lock as if gc never held it.
TableUnlocked_Always == TRUE

\* s.mutex.RLock() or s.mutex.Lock() of a handler returns: gc does not hold
\* the write lock.  (A handler's own critical section is one step.)
TableUnlocked == gcpc # "sweep"

\* gc, lines 158-159: the write lock and the start of the range.
Sweep_Lock ==
    /\ gcpc = "wait"
    /\ \E o \in Orders(DOMAIN sessions) : expired' = o
    /\ gcpc' = "sweep"
    /\ UNCHANGED <<now, heap, sessions, pc, cookie, cand, ret, maps, removed, name>>

\* gc, lines 159-163: one round of the range loop.
Sweep_Visit ==
    /\ gcpc = "sweep"
    /\ expired # <<>>
    /\ LET k == Head(expired)
       IN sessions' = IF heap[sessions[k]].expiry <= now
                      THEN MapDelete(sessions, k)
                      ELSE sessions
    /\ expired' = Tail(expired)
    /\ UNCHANGED <<now, heap, pc, cookie, cand, ret, gcpc, maps, removed, name>>

\* gc, line 164: the unlock after the loop.
Sweep_Unlock ==
    /\ gcpc = "sweep"
    /\ expired = <<>>
    /\ gcpc' = "wait"
    /\ UNCHANGED <<now, heap, sessions, pc, cookie, cand, ret, expired, maps, removed, name>>

\* The critical sections of a handler on the table.
Sweep_TableOp(h) ==
    \/ MemoryStore_Get(h)
    \/ MemoryStore_generateID(h)
    \/ MemoryStore_New(h)
    \/ MemoryStore_Save(h)
    \/ MemoryStore_Delete(h)

\* A handler's step: its critical sections wait for the lock, the rest of
\* its code does not.
Sweep_Handler(h) ==
    \/ TableUnlocked /\ Sweep_TableOp(h)
    \/ MemoryStore_GetHit(h)
    \/ Session_SetMaxAge(h)

\* The time stands still here: the sweep and the lock do not depend on it,
\* and SetMaxAge(0) makes a session due at once.
NextSweep ==
    \/ \E h \in Handlers : Sweep_Handler(h)
    \/ Sweep_Lock
    \/ Sweep_Visit
    \/ Sweep_Unlock

SpecSweep == Init /\ [][NextSweep]_vars

\* ============================================================ claims, sweep

\* C24: no critical section of Get, New, Save, Delete or generateID is run
\* between the Lock and the Unlock of a sweep, so each of them sees the table
\* before a sweep or after the whole of it; and within a sweep the table only
\* loses entries that were due.
C24_SweepExcludesTableOps ==
    [][/\ \A h \in Handlers : Sweep_TableOp(h) => (gcpc = "wait" /\ gcpc' = "wait")
       /\ gcpc = "sweep"
          => /\ DOMAIN sessions' \subseteq DOMAIN sessions
             /\ \A c \in DOMAIN sessions' : sessions'[c] = sessions[c]
             /\ \A c \in DOMAIN sessions \ DOMAIN sessions' :
                  heap[sessions[c]].expiry <= now]_vars

\* C24's case: gc is in the middle of a sweep, with one entry deleted and one
\* still to visit, while a handler is about to put its new session in the
\* table.
C24_Witness ==
    /\ gcpc = "sweep"
    /\ Len(expired) = 1
    /\ Cardinality(DOMAIN sessions) = 1
    /\ Head(expired) \in DOMAIN sessions
    /\ \E p \in 1..Len(heap) : heap[p].id \notin DOMAIN sessions /\ heap[p].expiry <= now
    /\ \E h \in Handlers : pc[h] = "generateID"

\* ========== memoryStore.New and memoryMutex, statement by statement (store.go)
\* New on a hit takes memoryMutex.RLock() with a deferred RUnlock (lines
\* 202-203), reads the entry and then copies its Values: a handler at
\* "DeepCopyMap" has read the entry and holds the read lock.

\* memoryMutex.Lock() of save returns: no handler holds the read lock.
memoryMutex_AdmitsWriter == \A h \in Handlers : pc[h] # "DeepCopyMap"

\* New, lines 193-205: the new session, the cookie, and on a cookie the read
\* lock and the lookup.  Without a cookie, or on a miss, New returns here.
Locked_NewBegin(h) ==
    \E c \in IDS \cup {NoCookie} :
        IF c \in DOMAIN sessions
        THEN /\ pc[h] = "New"
             /\ Len(heap) < MaxMySessions
             /\ cookie' = [cookie EXCEPT ![h] = c]
             /\ pc' = [pc EXCEPT ![h] = "DeepCopyMap"]
             /\ UNCHANGED <<now, heap, sessions, cand, ret, gcpc, expired, maps, removed, name>>
        ELSE memoryStore_NewOf(h, c)

\* New, lines 206-216: DeepCopyMap, the rest of the hit, and the deferred
\* RUnlock.
Locked_NewCopy(h) ==
    /\ pc[h] = "DeepCopyMap"
    /\ LET c == cookie[h]
           p == Len(heap) + 1
           session == NewMySession(cand[h], memoryStore_MaxAge, now, p)
           se == heap[sessions[c]]
           d == DeepCopyMap(Append(maps, <<>>), se.values, p)
       IN IF d.err
          THEN /\ ret' = [ret EXCEPT ![h] = [NoRet EXCEPT !.kind = "error",
                                                          !.found = TRUE]]
               /\ UNCHANGED <<heap, maps>>
          ELSE /\ heap' = Append(heap, [session EXCEPT !.values = d.ref,
                                                       !.maxAge = se.maxAge,
                                                       !.id = c,
                                                       !.isNew = FALSE])
               /\ maps' = d.maps
               /\ ret' = [ret EXCEPT ![h] = [kind |-> "hit", ptr |-> p,
                                             isNew |-> FALSE, found |-> TRUE]]
    /\ pc' = [pc EXCEPT ![h] = "idle"]
    /\ cand' = [cand EXCEPT ![h] = NoCookie]
    /\ cookie' = [cookie EXCEPT ![h] = NoCookie]
    /\ UNCHANGED <<now, sessions, gcpc, expired, removed, name>>

\* save, lines 231-233: the write lock and the put.
Locked_save(h) == memoryMutex_AdmitsWriter /\ memoryStore_save(h)

NextLocked ==
    \/ \E h \in Handlers : memoryStore_Get(h)
    \/ \E h \in Handlers : Locked_NewBegin(h)
    \/ \E h \in Handlers : Locked_NewCopy(h)
    \/ \E h \in Handlers : Values_Write(h)
    \/ \E h \in Handlers : memoryStore_Save(h)
    \/ \E h \in Handlers : Locked_save(h)

SpecLocked == Init /\ [][NextLocked]_vars

\* ======================================================= claims, memoryMutex

\* C25 as stated: the copy of a hit is made without the table lock, so a
\* save that wants the write lock never has to wait for a copy.
C25_SaveNeverWaitsForCopy ==
    \A g \in Handlers : pc[g] = "save" => memoryMutex_AdmitsWriter

\* ======================= cookieStore without deep copy (store.go 460-565)
\* Get holds the read lock of the package-level mutex of session.go while it
\* calls session.SetIsNew, which takes the write lock of the same mutex.  A
\* handler at pc "Lock" is at the mutex.Lock() of SetIsNew (session.go 62);
\* it is inside Get, holding the read lock Get took, exactly when cookie[h]
\* is the cookie of the request.

\* The handler holds mutex's read lock: it is between lines 488 and 491.
HoldsRLock(h) == pc[h] = "Lock" /\ cookie[h] # NoCookie

\* sync.RWMutex: Lock returns when nobody holds the mutex.  SetIsNew is the
\* only writer and takes and releases the lock within one step.
mutex_AdmitsWriter == \A g \in Handlers : ~HoldsRLock(g)

\* Get, lines 482-490 and 498: the name check, the cookie, RLock, the lookup
\* and the call of SetIsNew on what the lookup returned.
cookieStore_GetRLocked(h) ==
    /\ Running
    /\ pc[h] = "idle"
    /\ \E nameValid \in BOOLEAN, c \in IDS \cup {NoCookie} :
         IF ~nameValid
         THEN /\ ret' = [ret EXCEPT ![h] = [NoRet EXCEPT !.kind = "invalidName"]]
              /\ UNCHANGED <<pc, cookie>>
         ELSE IF c = NoCookie
         THEN /\ pc' = [pc EXCEPT ![h] = "New"]
              /\ ret' = [ret EXCEPT ![h] = NoRet]
              /\ UNCHANGED cookie
         ELSE /\ pc' = [pc EXCEPT ![h] = "Lock"]
              /\ cookie' = [cookie EXCEPT ![h] = c]
              /\ ret' = [ret EXCEPT ![h] =
                           [NoRet EXCEPT !.ptr = IF c \in DOMAIN sessions
                                                 THEN sessions[c] ELSE Nil,
                                         !.found = c \in DOMAIN sessions]]
    /\ UNCHANGED <<now, heap, sessions, cand, gcpc, expired, maps, removed, name>>

\* A handler calls SetIsNew on the session it holds, outside Get.
Session_SetIsNew_Call(h) ==
    /\ Running
    /\ pc[h] = "idle"
    /\ ret[h].ptr # Nil
    /\ pc' = [pc EXCEPT ![h] = "Lock"]
    /\ UNCHANGED <<now, heap, sessions, cookie, cand, ret, gcpc, expired, maps, removed, name>>

\* SetIsNew, session.go lines 62-64 with the deferred Unlock, and, inside
\* Get, lines 491-494 and 498 after it.  s.isNew = isNew on a nil *Session
\* is a nil dereference, which ends the process.
Session_SetIsNew_Lock(h) ==
    /\ Running
    /\ pc[h] = "Lock"
    /\ mutex_AdmitsWriter
    /\ IF ret[h].ptr = Nil
       THEN /\ gcpc' = "panic"
            /\ UNCHANGED <<heap, pc, cookie, ret>>
       ELSE /\ \E b \in IF cookie[h] # NoCookie THEN {FALSE} ELSE BOOLEAN :
                 heap' = SetIsNew(heap, ret[h].ptr, b)
            /\ IF cookie[h] # NoCookie /\ ~ret[h].found
               THEN /\ pc' = [pc EXCEPT ![h] = "New"]
                    /\ ret' = [ret EXCEPT ![h] = NoRet]
               ELSE /\ pc' = [pc EXCEPT ![h] = "idle"]
                    /\ ret' = [ret EXCEPT ![h].kind =
                                 IF cookie[h] # NoCookie THEN "hit" ELSE "done"]
            /\ cookie' = [cookie EXCEPT ![h] = NoCookie]
            /\ UNCHANGED gcpc
    /\ UNCHANGED <<now, sessions, cand, expired, maps, removed, name>>

\* New, lines 502-509, with generateID, lines 526-539: an id that is not in
\* the table, or the error of GenerateRandomString; the session is not
\* stored.
cookieStore_NewUnsaved(h) ==
    /\ Running
    /\ pc[h] = "New"
    /\ \/ /\ Len(heap) < MaxObjects
          /\ \E id \in IDS \ DOMAIN sessions :
               heap' = Append(heap, NewSession(id, cookieStore_MaxAge, now))
          /\ ret' = [ret EXCEPT ![h] = [kind |-> "new", ptr |-> Len(heap) + 1,
                                        isNew |-> TRUE, found |-> FALSE]]
       \/ /\ ret' = [ret EXCEPT ![h] = [NoRet EXCEPT !.kind = "error"]]
          /\ UNCHANGED heap
    /\ pc' = [pc EXCEPT ![h] = "idle"]
    /\ UNCHANGED <<now, sessions, cookie, cand, gcpc, expired, maps, removed, name>>

\* Save and save, lines 512-523.
cookieStore_Save(h) ==
    /\ Running
    /\ pc[h] = "idle"
    /\ ret[h].ptr # Nil
    /\ sessions' = MapPut(sessions, heap[ret[h].ptr].id, ret[h].ptr)
    /\ UNCHANGED <<now, heap, pc, cookie, cand, ret, gcpc, expired, maps, removed, name>>

NextRLocked ==
    \/ \E h \in Handlers : cookieStore_GetRLocked(h)
    \/ \E h \in Handlers : Session_SetIsNew_Call(h)
    \/ \E h \in Handlers : Session_SetIsNew_Lock(h)
    \/ \E h \in Handlers : cookieStore_NewUnsaved(h)
    \/ \E h \in Handlers : cookieStore_Save(h)

SpecRLocked == Init /\ [][NextRLocked]_vars

\* =================================== claims, cookieStore without deep copy

\* C29 as stated: the Get that calls SetIsNew between RLock and RUnlock is
\* never at the mutex.Lock() of SetIsNew while it still holds the read lock
\* of the same mutex, and the session it calls SetIsNew on is not nil.
C29_GetNeverLocksUnderItsRLock ==
    \A h \in Handlers :
        pc[h] = "Lock" => (~HoldsRLock(h) /\ ret[h].ptr # Nil)

\* ============== monitorExpiredSessions (store.go 432-458 and 541-565)
\* The monitor goroutine statement by statement: isEmpty under the read
\* lock, the range over s.sessions under no lock, and delete under the write
\* lock for each entry the comparison selects.  gcpc is "range" between two
\* visits and "delete" at the call of s.delete; expired holds the keys the
\* range has still to visit.

\* The range over s.sessions has begun and not ended.
monitor_Iterating == gcpc \in {"range", "delete"}

\* isEmpty, lines 454-458, and the range statement, line 438.
monitor_isEmpty ==
    /\ gcpc = "wait"
    /\ sessions # <<>>
    /\ gcpc' = "range"
    /\ expired' \in Orders(DOMAIN sessions)
    /\ UNCHANGED <<now, heap, sessions, pc, cookie, cand, ret, maps, removed, name>>

\* One visit of the range, lines 438-439, or its end.
monitor_Range ==
    /\ gcpc = "range"
    /\ IF expired = <<>>
       THEN /\ gcpc' = "wait"
            /\ UNCHANGED expired
       ELSE IF Head(expired) \in infoStore_Doomed(sessions, now)
       THEN /\ gcpc' = "delete"
            /\ UNCHANGED expired
       ELSE /\ expired' = Tail(expired)
            /\ UNCHANGED gcpc
    /\ UNCHANGED <<now, heap, sessions, pc, cookie, cand, ret, maps, removed, name>>

\* delete, lines 446-452.
monitor_delete ==
    /\ gcpc = "delete"
    /\ sessions' = MapDelete(sessions, Head(expired))
    /\ expired' = Tail(expired)
    /\ gcpc' = "range"
    /\ UNCHANGED <<now, heap, pc, cookie, cand, ret, maps, removed, name>>

\* Save and save, lines 396-414, next to the monitor.  A write of the map
\* during the range is a data race: the runtime may end the process with
\* "concurrent map iteration and map write", and otherwise the range may or
\* may not visit the new key.
monitor_Save(h) ==
    /\ Running
    /\ pc[h] = "idle"
    /\ ret[h].ptr # Nil
    /\ LET p == ret[h].ptr
           id == heap[p].id
           put == MapPut(sessions, id,
                         [session |-> p, expiresTimestamp |-> now + heap[p].maxAge])
       IN \/ /\ sessions' = put
             /\ UNCHANGED <<gcpc, expired>>
          \/ /\ monitor_Iterating
             /\ id \notin DOMAIN sessions
             /\ sessions' = put
             /\ expired' = Append(expired, id)
             /\ UNCHANGED gcpc
          \/ /\ monitor_Iterating
             /\ gcpc' = "panic"
             /\ UNCHANGED <<sessions, expired>>
    /\ ret' = [ret EXCEPT ![h].kind = "saved"]
    /\ UNCHANGED <<now, heap, pc, cookie, cand, maps, removed, name>>

NextMonitor ==
    \/ \E h \in Handlers : Running /\ memoryStore_Get(h)
    \/ \E h \in Handlers : Running /\ infoStore_New(h)
    \/ \E h \in Handlers : monitor_Save(h)
    \/ monitor_isEmpty
    \/ monitor_Range
    \/ monitor_delete

SpecMonitor == Init /\ [][NextMonitor]_vars

\* ============================================ claims, monitorExpiredSessions

\* C31 as stated: the sessions map is read, iterated and written only under
\* its lock, so while monitorExpiredSessions is inside its range the map
\* changes only by the monitor's own delete.
C31_RangeSeesNoForeignWrite ==
    [][(monitor_Iterating /\ sessions' # sessions)
         => (gcpc = "delete" /\ gcpc' = "range")]_vars

\* ===================== Options behind pointers (session.go 12-21, 117-153)
\* Options objects live in maps: maps[o] is the Options value behind pointer
\* o, and a session's options field is such a pointer.  The store's own
\* Options object is the first one; gcpc names the store that was
\* constructed.

\* The most sessions a behaviour creates.
MaxOptSessions == 2

\* s.options of the cookieStore and s.Options of the memoryStore.
StoreOptions == 1

\* The fields the setters write and the values they are given.
OptionFields == {"MaxAge", "Path"}
OptionValues(f) == IF f = "MaxAge" THEN {0, MaxSetAge} ELSE {"/app"}

\* A copy that hands back the pointer it was given.
CopyOptions_Alias(os, src) == [opts |-> os, ref |-> src]

\* NewSession's by-value parameter and its &options, session.go 12 and 19;
\* *session.Options = *s.Options, store.go 198 and 211: a new Options
\* object with the fields of the one behind src.
CopyOptions(os, src) == [opts |-> Append(os, os[src]), ref |-> Len(os) + 1]

\* newCookieStore, store.go 38-50.
newCookieStore ==
    /\ gcpc = "wait"
    /\ maps = <<>>
    /\ maps' = <<[MaxAge |-> cookieStore_MaxAge, Path |-> "/"]>>
    /\ gcpc' = "cookieStore"
    /\ UNCHANGED <<now, heap, sessions, pc, cookie, cand, ret, expired, removed, name>>

\* The constructor of the memoryStore, store.go 154-166.
newMemoryStore ==
    /\ gcpc = "wait"
    /\ maps = <<>>
    /\ maps' = <<[MaxAge |-> memoryStore_MaxAge, Path |-> "/"]>>
    /\ gcpc' = "memoryStore"
    /\ UNCHANGED <<now, heap, sessions, pc, cookie, cand, ret, expired, removed, name>>

\* cookieStore.Get, store.go 59-77, with New, 80-91: the stored pointer on a
\* hit, a new stored session with a copy of the store's options otherwise.
Options_cookieStore_Get(h) ==
    /\ gcpc = "cookieStore"
    /\ \E c \in IDS \cup {NoCookie} :
         IF c \in DOMAIN sessions
         THEN /\ ret' = [ret EXCEPT ![h] = [kind |-> "hit", ptr |-> sessions[c],
                                            isNew |-> FALSE, found |-> TRUE]]
              /\ heap' = [heap EXCEPT ![sessions[c]].isNew = FALSE]
              /\ UNCHANGED <<sessions, maps>>
         ELSE /\ Len(heap) < MaxOptSessions
              /\ \E id \in IDS \ DOMAIN sessions :
                   LET o == CopyOptions(maps, StoreOptions)
                   IN /\ heap' = Append(heap,
                                   [id |-> id, isNew |-> TRUE,
                                    expiry |-> now + o.opts[o.ref].MaxAge,
                                    options |-> o.ref])
                      /\ maps' = o.opts
                      /\ sessions' = MapPut(sessions, id, Len(heap) + 1)
              /\ ret' = [ret EXCEPT ![h] = [kind |-> "new", ptr |-> Len(heap) + 1,
                                            isNew |-> TRUE, found |-> FALSE]]
    /\ UNCHANGED <<now, pc, cookie, cand, gcpc, expired, removed, name>>

\* memoryStore.Get and New, store.go 186-217: always a new session, with a
\* copy of the stored session's options on a hit and of the store's
\* otherwise.
Options_memoryStore_New(h) ==
    /\ gcpc = "memoryStore"
    /\ Len(heap) < MaxOptSessions
    /\ \E c \in IDS \cup {NoCookie}, id \in IDS \ DOMAIN sessions :
         LET hit == c \in DOMAIN sessions
             o == CopyOptions(maps, IF hit THEN heap[sessions[c]].options
                                    ELSE StoreOptions)
         IN /\ heap' = Append(heap,
                         [id |-> IF hit THEN c ELSE id, isNew |-> ~hit,
                          expiry |-> now + o.opts[o.ref].MaxAge,
                          options |-> o.ref])
            /\ maps' = o.opts
            /\ ret' = [ret EXCEPT ![h] = [kind |-> IF hit THEN "hit" ELSE "new",
                                          ptr |-> Len(heap) + 1,
                                          isNew |-> ~hit, found |-> hit]]
    /\ UNCHANGED <<now, sessions, pc, cookie, cand, gcpc, expired, removed, name>>

\* memoryStore.Save and save, store.go 220-234.
Options_memoryStore_Save(h) ==
    /\ gcpc = "memoryStore"
    /\ ret[h].ptr # Nil
    /\ sessions' = MapPut(sessions, heap[ret[h].ptr].id, ret[h].ptr)
    /\ heap' = [heap EXCEPT ![ret[h].ptr].expiry =
                              now + maps[heap[ret[h].ptr].options].MaxAge]
    /\ UNCHANGED <<now, pc, cookie, cand, ret, gcpc, expired, maps, removed, name>>

\* SetMaxAge and SetCookiePath, session.go 117-129, on
\* the session the handler holds: the write goes through s.options.
Session_SetOptionOf(h, f, v) ==
    /\ gcpc \in {"cookieStore", "memoryStore"}
    /\ ret[h].ptr # Nil
    /\ maps' = [maps EXCEPT ![heap[ret[h].ptr].options][f] = v]
    /\ IF f = "MaxAge" /\ gcpc = "cookieStore"
       THEN heap' = [heap EXCEPT ![ret[h].ptr].expiry = now + v]
       ELSE UNCHANGED heap
    /\ UNCHANGED <<now, sessions, pc, cookie, cand, ret, gcpc, expired, removed, name>>

NextOptions ==
    \/ newCookieStore
    \/ newMemoryStore
    \/ \E h \in Handlers : Options_cookieStore_Get(h)
    \/ \E h \in Handlers : Options_memoryStore_New(h)
    \/ \E h \in Handlers : Options_memoryStore_Save(h)
    \/ \E h \in Handlers, f \in OptionFields :
         \E v \in OptionValues(f) : Session_SetOptionOf(h, f, v)

SpecOptions == Init /\ [][NextOptions]_vars

\* ============================================================ claims, Options

\* C32: a setter called on one session changes neither the store's options
\* nor the options of any other session object.
C32_SetterTouchesOneSession ==
    [][\A h \in Handlers : \A f \in OptionFields : \A v \in OptionValues(f) :
         Session_SetOptionOf(h, f, v)
         => /\ maps'[StoreOptions] = maps[StoreOptions]
            /\ \A q \in 1..Len(heap) :
                 q # ret[h].ptr => maps'[heap[q].options] = maps[heap[q].options]]_vars

\* A handler holds the session New made from a stored one and has called a
\* setter on it: the options of the two differ, and the stored session's and
\* the store's are the defaults still.
C32_Witness ==
    \E p, q \in 1..Len(heap) :
        /\ p # q
        /\ heap[p].id = heap[q].id
        /\ heap[q].id \in DOMAIN sessions /\ sessions[heap[q].id] = q
        /\ \E h \in Handlers : ret[h].ptr = p /\ ret[h].found
        /\ maps[heap[p].options] # maps[heap[q].options]
        /\ maps[heap[q].options] = maps[StoreOptions]
        /\ maps[StoreOptions].MaxAge = memoryStore_MaxAge

\* ======================= Session values by key (session.go 75-106)
\* GetValueByKey, InsertValue and ModifyValueByKey, each as one step: the
\* body under the lock the method holds from its first statement to its
\* return.  ret records the call and what it returned.

ValueKeys == {"name", "age"}
NoVal == "nil"

\* A ModifyValueByKey that writes whether or not the key is there.
ModifyValue_Upsert(m, k, v) == [err |-> FALSE, m |-> MapPut(m, k, v)]

\* ModifyValueByKey, lines 101-105.
ModifyValue(m, k, v) ==
    IF k \notin DOMAIN m
    THEN [err |-> TRUE, m |-> m]
    ELSE [err |-> FALSE, m |-> MapPut(m, k, v)]

\* GetValueByKey, lines 79-83.
GetValue(m, k) ==
    IF k \notin DOMAIN m
    THEN [err |-> TRUE, v |-> NoVal]
    ELSE [err |-> FALSE, v |-> m[k]]

\* What a call on the session the handler holds hands back.
Returned(h, op, k, err, v) ==
    [kind |-> IF err THEN "error" ELSE "done", ptr |-> ret[h].ptr,
     isNew |-> ret[h].isNew, found |-> ret[h].found,
     op |-> op, key |-> k, val |-> v]

\* InsertValue, lines 89-93.
Session_InsertValueOf(h, k, v) ==
    /\ pc[h] = "idle"
    /\ ret[h].ptr # Nil
    /\ maps' = [maps EXCEPT ![ret[h].ptr] = MapPut(@, k, v)]
    /\ ret' = [ret EXCEPT ![h] = Returned(h, "InsertValue", k, FALSE, NoVal)]
    /\ UNCHANGED <<now, heap, sessions, pc, cookie, cand, gcpc, expired, removed, name>>

Session_ModifyValueByKeyOf(h, k, v) ==
    /\ pc[h] = "idle"
    /\ ret[h].ptr # Nil
    /\ LET r == ModifyValue(maps[ret[h].ptr], k, v)
       IN /\ maps' = [maps EXCEPT ![ret[h].ptr] = r.m]
          /\ ret' = [ret EXCEPT ![h] = Returned(h, "ModifyValueByKey", k, r.err, NoVal)]
    /\ UNCHANGED <<now, heap, sessions, pc, cookie, cand, gcpc, expired, removed, name>>

Session_GetValueByKeyOf(h, k) ==
    /\ pc[h] = "idle"
    /\ ret[h].ptr # Nil
    /\ LET r == GetValue(maps[ret[h].ptr], k)
       IN ret' = [ret EXCEPT ![h] = Returned(h, "GetValueByKey", k, r.err, r.v)]
    /\ UNCHANGED <<now, heap, sessions, pc, cookie, cand, gcpc, expired, maps, removed, name>>

NextValues ==
    \/ \E h \in Handlers : Session_Obtain(h)
    \/ \E h \in Handlers, k \in ValueKeys, v \in Registered : Session_InsertValueOf(h, k, v)
    \/ \E h \in Handlers, k \in ValueKeys, v \in Registered :
         Session_ModifyValueByKeyOf(h, k, v)
    \/ \E h \in Handlers, k \in ValueKeys : Session_GetValueByKeyOf(h, k)

SpecValues == Init /\ [][NextValues]_vars

\* ===================================================== claims, values by key

\* C33: ModifyValueByKey on an absent key returns an error and changes no
\* values map; on a present key it returns no error and changes that key of
\* that session's map and nothing else; GetValueByKey on an absent key
\* returns an error and no value, on a present key the stored value.
C33_ModifyOnlyWhatIsThere ==
    [][\A h \in Handlers : \A k \in ValueKeys :
         /\ \A v \in Registered :
              Session_ModifyValueByKeyOf(h, k, v)
              => LET p == ret[h].ptr
                 IN IF k \notin DOMAIN maps[p]
                    THEN ret'[h].kind = "error" /\ maps' = maps
                    ELSE /\ ret'[h].kind = "done"
                         /\ DOMAIN maps'[p] = DOMAIN maps[p]
                         /\ maps'[p][k] = v
                         /\ \A j \in DOMAIN maps[p] \ {k} : maps'[p][j] = maps[p][j]
                         /\ \A q \in 1..Len(maps) : q # p => maps'[q] = maps[q]
         /\ Session_GetValueByKeyOf(h, k)
              => LET p == ret[h].ptr
                 IN IF k \notin DOMAIN maps[p]
                    THEN ret'[h].kind = "error" /\ ret'[h].val = NoVal
                    ELSE ret'[h].kind = "done" /\ ret'[h].val = maps[p][k]]_vars

\* One handler's ModifyValueByKey was refused for a key that is absent from
\* a map that holds the other key, and another handler's went through.
C33_Witness ==
    \E h, g \in Handlers :
        /\ "op" \in DOMAIN ret[h] /\ "op" \in DOMAIN ret[g]
        /\ ret[h].kind = "error"
        /\ ret[h].op = "ModifyValueByKey"
        /\ ret[h].key \notin DOMAIN maps[ret[h].ptr]
        /\ maps[ret[h].ptr] # <<>>
        /\ ret[g].kind = "done"
        /\ ret[g].op = "ModifyValueByKey"
        /\ ret[g].ptr = ret[h].ptr

\* ============ MemoryStore configuration (utils.go 53-99, part_001 22-34)
\* NewMemoryStore applies the option functions it is given to the store it
\* is building.  The store object is heap[1]; Options objects live in maps,
\* maps[o] being the value behind pointer o; ret[h].ptr is the *Options a
\* caller holds.  gcpc is "options" while the option functions run and "gc"
\* once the store has been returned.

\* The most Options objects callers make.
MaxCallerOptions == 1

\* Options.Validate, part_001 lines 22-34.
Options_Validate(o) ==
    /\ o.Path # ""
    /\ o.MaxAge >= 0
    /\ o.SameSite = "None" => o.Secure

\* defaultOptions(), utils.go 53-62, in seconds.
defaultOptions ==
    [Path |-> "/", MaxAge |-> defaultOptions_MaxAge, Secure |-> TRUE,
     SameSite |-> "Strict"]

\* A caller makes an Options value and keeps the pointer to it.
Caller_NewOptions(h) ==
    /\ ret[h].ptr = Nil
    /\ Len(maps) < MaxCallerOptions + 1
    /\ \E path \in {"", "/"}, maxAge \in {0 - 1, 60}, secure \in BOOLEAN,
          sameSite \in {"None", "Strict"} :
         maps' = Append(maps, [Path |-> path, MaxAge |-> maxAge, Secure |-> secure,
                               SameSite |-> sameSite])
    /\ ret' = [ret EXCEPT ![h].ptr = Len(maps) + 1]
    /\ UNCHANGED <<now, heap, sessions, pc, cookie, cand, gcpc, expired, removed, name>>

\* A caller writes a field of the Options value it holds.
Caller_WriteOptions(h) ==
    /\ ret[h].ptr # Nil
    /\ \/ \E path \in {"", "/"} : maps' = [maps EXCEPT ![ret[h].ptr].Path = path]
       \/ \E maxAge \in {0 - 1, 60} : maps' = [maps EXCEPT ![ret[h].ptr].MaxAge = maxAge]
    /\ UNCHANGED <<now, heap, sessions, pc, cookie, cand, ret, gcpc, expired, removed, name>>

\* NewMemoryStore, example/main.go lines 66-76: the store with its defaults.
NewMemoryStore_Begin ==
    /\ gcpc = "wait"
    /\ heap = <<>>
    /\ maps' = Append(maps, defaultOptions)
    /\ heap' = <<[idLength |-> 16, gcInterval |-> 500, options |-> Len(maps) + 1]>>
    /\ gcpc' = "options"
    /\ UNCHANGED <<now, sessions, pc, cookie, cand, ret, expired, removed, name>>

\* WithOptions, utils.go 67-79, applied by the loop at example/main.go 79.
WithOptions(h) ==
    /\ gcpc = "options"
    /\ IF ret[h].ptr = Nil
       THEN UNCHANGED <<heap, gcpc>>
       ELSE IF ~Options_Validate(maps[ret[h].ptr])
       THEN gcpc' = "panic" /\ UNCHANGED heap
       ELSE heap' = [heap EXCEPT ![1].options = ret[h].ptr] /\ UNCHANGED gcpc
    /\ UNCHANGED <<now, sessions, pc, cookie, cand, ret, expired, maps, removed, name>>

\* WithSessionIDLength, utils.go 82-89.
WithSessionIDLength ==
    /\ gcpc = "options"
    /\ \E length \in {0, 32} :
         IF length <= 0
         THEN gcpc' = "panic" /\ UNCHANGED heap
         ELSE heap' = [heap EXCEPT ![1].idLength = length] /\ UNCHANGED gcpc
    /\ UNCHANGED <<now, sessions, pc, cookie, cand, ret, expired, maps, removed, name>>

\* WithGCInterval, utils.go 92-99.
WithGCInterval ==
    /\ gcpc = "options"
    /\ \E interval \in {0, 1000} :
         IF interval <= 0
         THEN gcpc' = "panic" /\ UNCHANGED heap
         ELSE heap' = [heap EXCEPT ![1].gcInterval = interval] /\ UNCHANGED gcpc
    /\ UNCHANGED <<now, sessions, pc, cookie, cand, ret, expired, maps, removed, name>>

\* NewMemoryStore, example/main.go lines 82-84: go store.gc() and the return.
NewMemoryStore_End ==
    /\ gcpc = "options"
    /\ gcpc' = "gc"
    /\ UNCHANGED <<now, heap, sessions, pc, cookie, cand, ret, expired, maps, removed, name>>

NextConfig ==
    \/ \E h \in Handlers : Caller_NewOptions(h)
    \/ \E h \in Handlers : Caller_WriteOptions(h)
    \/ NewMemoryStore_Begin
    \/ \E h \in Handlers : WithOptions(h)
    \/ WithSessionIDLength
    \/ WithGCInterval
    \/ NewMemoryStore_End

SpecConfig == Init /\ [][NextConfig]_vars

\* ==================================================== claims, configuration

\* C34 as stated: a store that NewMemoryStore has returned has, at every
\* moment, idLength > 0, gcInterval > 0 and options that satisfy Validate.
C34_ConfigurationStaysValid ==
    gcpc = "gc" =>
        /\ heap[1].idLength > 0
        /\ heap[1].gcInterval > 0
        /\ Options_Validate(maps[heap[1].options])

\* =========== RedisStore with its serializer (serializer.go, part_005)
\* The keyspace holds JSON documents: sessions[id] is what client.Set wrote
\* under id.  A value of the Values map carries its dynamic Go type.  cand[h]
\* is the document a handler has serialized or fetched; maps[id] records the
\* session object as it was when the last Save of id serialized it.

\* The most session objects a behaviour creates.
MaxJsonObjects == 2

\* The values a handler stores: the int 18 and the string "Coco".
GoValues == {[t |-> "int", v |-> "18"], [t |-> "string", v |-> "Coco"]}

\* json.Marshal of a value held in an interface{}: a Go number of any type
\* becomes a JSON number, a string a JSON string.
json_MarshalAny(x) ==
    IF x.t \in {"int", "float64"} THEN [j |-> "number", v |-> x.v]
    ELSE [j |-> "string", v |-> x.v]

\* json.Unmarshal into an interface{}: a JSON number becomes a float64, a
\* JSON string a string.
json_UnmarshalAny(tok) ==
    IF tok.j = "number" THEN [t |-> "float64", v |-> tok.v] ELSE [t |-> "string", v |-> tok.v]

\* Serializer.Serialize, serializer.go 7-11: json.Marshal(session.data)
\* under the session's read lock.
Serialize(s) ==
    [ID |-> s.id, Name |-> s.name, IsNew |-> s.isNew, Expiry |-> s.expiry,
     MaxAge |-> s.maxAge,
     Values |-> [k \in DOMAIN s.values |-> json_MarshalAny(s.values[k])]]

\* Serializer.Deserialize, serializer.go 13-22: json.Unmarshal into a new
\* sessionData under the session's lock; the typed fields decode as their
\* declared types, the values as interface{}.
Deserialize(doc) ==
    [id |-> doc.ID, name |-> doc.Name, isNew |-> doc.IsNew, expiry |-> doc.Expiry,
     maxAge |-> doc.MaxAge,
     values |-> [k \in DOMAIN doc.Values |-> json_UnmarshalAny(doc.Values[k])]]

\* RedisStore.Get, part_005 lines 70-84: the cookie and the remote GET.
Json_GetOf(h, c, remote) ==
    /\ pc[h] = "idle"
    /\ IF c = NoCookie \/ (remote = "ok" /\ c \notin DOMAIN sessions)
       THEN /\ pc' = [pc EXCEPT ![h] = "New"]
            /\ ret' = [ret EXCEPT ![h] = NoRet]
            /\ UNCHANGED <<cand, cookie>>
       ELSE IF remote = "err"
       THEN /\ ret' = [ret EXCEPT ![h] = [NoRet EXCEPT !.kind = "getError"]]
            /\ UNCHANGED <<pc, cand, cookie>>
       ELSE /\ pc' = [pc EXCEPT ![h] = "Deserialize"]
            /\ cand' = [cand EXCEPT ![h] = sessions[c]]
            /\ cookie' = [cookie EXCEPT ![h] = c]
            /\ ret' = [ret EXCEPT ![h] = NoRet]
    /\ UNCHANGED <<now, heap, sessions, gcpc, expired, maps, removed, name>>

\* RedisStore.Get, part_005 lines 86-92: Deserialize into a new Session and
\* IsNew = false.
Json_GetDeserialize(h) ==
    /\ pc[h] = "Deserialize"
    /\ Len(heap) < MaxJsonObjects
    /\ heap' = Append(heap, [Deserialize(cand[h]) EXCEPT !.isNew = FALSE])
    /\ ret' = [ret EXCEPT ![h] = [kind |-> "hit", ptr |-> Len(heap) + 1,
                                  isNew |-> FALSE, found |-> TRUE]]
    /\ pc' = [pc EXCEPT ![h] = "idle"]
    /\ cand' = [cand EXCEPT ![h] = NoCookie]
    /\ cookie' = [cookie EXCEPT ![h] = NoCookie]
    /\ UNCHANGED <<now, sessions, gcpc, expired, maps, removed, name>>

\* RedisStore.New, part_005 lines 97-104, with generateID: the new session,
\* about to be saved.
Json_New(h) ==
    /\ pc[h] = "New"
    /\ Len(heap) < MaxJsonObjects
    /\ \E id \in IDS \ DOMAIN sessions :
         heap' = Append(heap, NewSession(id, RedisStore_MaxAge, now)
                                @@ [name |-> "sid", values |-> <<>>])
    /\ ret' = [ret EXCEPT ![h] = [kind |-> "new", ptr |-> Len(heap) + 1,
                                  isNew |-> TRUE, found |-> FALSE]]
    /\ pc' = [pc EXCEPT ![h] = "Save"]
    /\ UNCHANGED <<now, sessions, cookie, cand, gcpc, expired, maps, removed, name>>

\* A handler writes session.Values[k] = v, or session.SetMaxAge, and calls
\* Save.
Json_Write(h) ==
    /\ pc[h] = "idle"
    /\ ret[h].ptr # Nil
    /\ \/ \E k \in {"age"}, v \in GoValues :
            heap' = [heap EXCEPT ![ret[h].ptr].values = MapPut(@, k, v)]
       \/ \E seconds \in 0..MaxSetAge :
            heap' = SetMaxAge(heap, ret[h].ptr, seconds, now)
    /\ pc' = [pc EXCEPT ![h] = "Save"]
    /\ UNCHANGED <<now, sessions, cookie, cand, ret, gcpc, expired, maps, removed, name>>

\* RedisStore.Save, part_005 lines 113-117: Serialize.
Json_SaveSerialize(h) ==
    /\ pc[h] = "Save"
    /\ cand' = [cand EXCEPT ![h] = Serialize(heap[ret[h].ptr])]
    /\ pc' = [pc EXCEPT ![h] = "Set"]
    /\ UNCHANGED <<now, heap, sessions, cookie, ret, gcpc, expired, maps, removed, name>>

\* RedisStore.Save, part_005 lines 122-123: the remote SET.
Json_SaveSet(h) ==
    /\ pc[h] = "Set"
    /\ \E remote \in Remote :
         IF remote = "err"
         THEN /\ ret' = [ret EXCEPT ![h].kind = "error"]
              /\ UNCHANGED <<sessions, maps>>
         ELSE /\ sessions' = MapPut(sessions, cand[h].ID, cand[h])
              /\ maps' = MapPut(maps, cand[h].ID, heap[ret[h].ptr])
              /\ ret' = [ret EXCEPT ![h].kind = "saved"]
    /\ pc' = [pc EXCEPT ![h] = "idle"]
    /\ cand' = [cand EXCEPT ![h] = NoCookie]
    /\ UNCHANGED <<now, heap, cookie, gcpc, expired, removed, name>>

NextJson ==
    \/ \E h \in Handlers, c \in IDS \cup {NoCookie}, remote \in Remote :
         Json_GetOf(h, c, remote)
    \/ \E h \in Handlers : Json_GetDeserialize(h)
    \/ \E h \in Handlers : Json_New(h)
    \/ \E h \in Handlers : Json_Write(h)
    \/ \E h \in Handlers : Json_SaveSerialize(h)
    \/ \E h \in Handlers : Json_SaveSet(h)

SpecJson == Init /\ [][NextJson]_vars

\* ================================================ claims, RedisStore round trip

\* C35 as stated: the session a Get hands back for an id has the id, name,
\* values, options and expiry of the session as the last Save of that id
\* serialized it, and isNew = false.
C35_SavedComesBackEqual ==
    [][\A h \in Handlers :
         (pc[h] = "Deserialize" /\ pc'[h] = "idle"
          /\ cookie[h] \in DOMAIN sessions /\ sessions[cookie[h]] = cand[h])
         => heap'[ret'[h].ptr] = [maps[cookie[h]] EXCEPT !.isNew = FALSE]]_vars

\* ============ generateRandomString (part_006 157-170, part_007 139-152)
\* The function as the code computes it: the slice make([]byte, n) gives,
\* and one append per round of the loop.  A draw is what rand.Int reports in
\* one round: a position of the alphabet, or its error.

\* The longest id asked for.
MaxIdLen == 3

\* Two of the 63 letters: the first and the last.
Letters == {"0", "#"}
\* The zero byte make([]byte, n) fills the slice with.
ZeroByte == "\\x00"
RandErr == "err"

\* make([]byte, n)
MakeBytes(n) == [i \in 1..n |-> ZeroByte]

\* The loop, lines 160-166 of part_006: round i of n, ret so far.
RECURSIVE generateRandomString_Loop(_, _, _)
generateRandomString_Loop(bytes, draws, i) ==
    IF i > Len(draws) THEN [str |-> bytes, err |-> FALSE]
    ELSE IF draws[i] = RandErr THEN [str |-> <<>>, err |-> TRUE]
    ELSE generateRandomString_Loop(Append(bytes, draws[i]), draws, i + 1)

\* generateRandomString(n) when rand.Int reports draws[i] in round i.
generateRandomString(n, draws) == generateRandomString_Loop(MakeBytes(n), draws, 1)

\* A handler calls generateRandomString(n).
generateRandomString_Call(h) ==
    /\ pc[h] = "idle"
    /\ \E n \in 0..MaxIdLen :
       \E draws \in [1..n -> Letters \cup {RandErr}] :
         LET r == generateRandomString(n, draws)
         IN ret' = [ret EXCEPT ![h] =
                      [kind |-> IF r.err THEN "error" ELSE "id", ptr |-> Nil,
                       isNew |-> FALSE, found |-> FALSE, n |-> n, str |-> r.str]]
    /\ UNCHANGED <<now, heap, sessions, pc, cookie, cand, gcpc, expired, maps, removed, name>>

NextRandom == \E h \in Handlers : generateRandomString_Call(h)

SpecRandom == Init /\ [][NextRandom]_vars

\* =============================================== claims, generateRandomString

\* C36 as stated: generateRandomString(n) returns a string of exactly n
\* characters, all of the alphabet, or an error with the empty string.
C36_ExactlyNLetters ==
    \A h \in Handlers :
        /\ ret[h].kind = "id" =>
             /\ Len(ret[h].str) = ret[h].n
             /\ \A i \in 1..Len(ret[h].str) : ret[h].str[i] \in Letters
        /\ ret[h].kind = "error" => ret[h].str = <<>>

\* ======================= NewCookie (cookie.go 8-40, utils.go 53-62)
\* 64-bit arithmetic on numbers written in base 10^9: <<a, b, c>> is
\* a * 10^18 + b * 10^9 + c, every limb below 10^9.  A Duration is a count
\* of nanoseconds, [neg, hi, lo] standing for +-(hi * 10^9 + lo).

Giga == 1000000000
\* 2^64 and 2^63
TwoTo64 == <<18, 446744073, 709551616>>
TwoTo63 == <<9, 223372036, 854775808>>

LimbLess(x, y) ==
    \/ x[1] < y[1]
    \/ x[1] = y[1] /\ x[2] < y[2]
    \/ x[1] = y[1] /\ x[2] = y[2] /\ x[3] < y[3]

\* x - y for x >= y, with the borrows.
LimbSub(x, y) ==
    LET b3 == IF x[3] < y[3] THEN 1 ELSE 0
        c == x[3] + b3 * Giga - y[3]
        b2 == IF x[2] - b3 < y[2] THEN 1 ELSE 0
        b == x[2] - b3 + b2 * Giga - y[2]
    IN <<x[1] - b2 - y[1], b, c>>

\* x modulo 2^64.
RECURSIVE Mod64(_)
Mod64(x) == IF LimbLess(x, TwoTo64) THEN x ELSE Mod64(LimbSub(x, TwoTo64))

\* The int64 a non-negative product x is stored as: x modulo 2^64, read as a
\* signed number.
Int64(x) ==
    LET u == Mod64(x)
    IN IF LimbLess(u, TwoTo63) THEN [neg |-> FALSE, mag |-> u]
       ELSE [neg |-> TRUE, mag |-> LimbSub(TwoTo64, u)]

\* time.Duration(n) and n * time.Second as Durations.
Nanoseconds(n) == [neg |-> FALSE, hi |-> 0, lo |-> n]
Seconds(k) == [neg |-> FALSE, hi |-> k, lo |-> 0]

\* The MaxAge values a store's or a session's Options hold: -1, 0, small
\* counts, whole multiples of time.Second, the two values on either side of
\* the largest int64 divided by 10^9, and the 60 * time.Second of
\* defaultOptions (utils.go 56).
CookieMaxAges ==
    {[neg |-> TRUE, hi |-> 0, lo |-> 1], Nanoseconds(0), Nanoseconds(1),
     Nanoseconds(30), Nanoseconds(60), Nanoseconds(3600),
     [neg |-> FALSE, hi |-> 9, lo |-> 223372036],
     [neg |-> FALSE, hi |-> 9, lo |-> 223372037],
     Seconds(1), Seconds(9), Seconds(10), Seconds(18), Seconds(19),
     Seconds(60)}

IsPositive(m) == ~m.neg /\ (m.hi > 0 \/ m.lo > 0)

\* NewCookie, cookie.go 12-23, with newCookieFromOptions, 26-40: the Max-Age
\* attribute is int(options.MaxAge); Expires is now + d, time.Unix(1, 0), or
\* unset.  d is options.MaxAge * time.Second as an int64; the exact product
\* is the MaxAge moved up by one limb.
NewCookie(m) ==
    [MaxAge |-> m,
     Expires |-> IF IsPositive(m) THEN [kind |-> "now+d", d |-> Int64(<<m.hi, m.lo, 0>>)]
                 ELSE IF m.neg THEN [kind |-> "Unix(1,0)"]
                 ELSE [kind |-> "unset"]]

\* A handler's Save builds the cookie of a session whose options hold m.
NewCookie_Call(h) ==
    /\ pc[h] = "idle"
    /\ \E m \in CookieMaxAges :
         ret' = [ret EXCEPT ![h] = [kind |-> "cookie", ptr |-> Nil, isNew |-> FALSE,
                                    found |-> FALSE, cookie |-> NewCookie(m)]]
    /\ UNCHANGED <<now, heap, sessions, pc, cookie, cand, gcpc, expired, maps, removed, name>>

NextNewCookie == \E h \in Handlers : NewCookie_Call(h)

SpecNewCookie == Init /\ [][NextNewCookie]_vars

\* ========================================================== claims, NewCookie

\* C37 as stated: for every positive MaxAge, the default included, the
\* product MaxAge * time.Second is the exact product, so Expires is now plus
\* as many seconds as the cookie's Max-Age; for a negative MaxAge Expires is
\* time.Unix(1, 0), in the past; for MaxAge = 0 Expires is unset.
C37_ExpiresMatchesMaxAge ==
    \A h \in Handlers :
        ret[h].kind = "cookie" =>
            LET c == ret[h].cookie
                m == c.MaxAge
            IN IF IsPositive(m)
               THEN /\ c.Expires.kind = "now+d"
                    /\ c.Expires.d = [neg |-> FALSE, mag |-> <<m.hi, m.lo, 0>>]
               ELSE IF m.neg THEN c.Expires.kind = "Unix(1,0)"
               ELSE c.Expires.kind = "unset"

====
